---- MODULE Spec2Model ----
(***************************************************************************)
(* Teams -> Notion webhook relay (ArjayNotorioCC3/Teams-Notion-API).       *)
(*                                                                         *)
(* The process is one asyncio event loop.  Every Graph and Notion call is  *)
(* a synchronous httpx call (services/graph_service.py, notion_service.py) *)
(* so a request handler never yields between its first Graph call and its  *)
(* response: each handler run is one atomic action of the model.           *)
(***************************************************************************)
EXTENDS Integers, Sequences, FiniteSets, TLC

VARIABLES
    now,              \* time.time(), in seconds
    recent_messages,  \* routes/webhooks.py:32, a dict kept in insertion order
    reactions,        \* Graph side: the reactions of each channel message
    pages,            \* Notion side: number of pages per "Teams Message ID"
    request,          \* the request or call handled last
    response,         \* the HTTP response (or call result) produced last
    log,              \* what the last handler run did, item by item
    body_read,        \* whether the last handler run read the request body
    subscriptions,    \* Graph side: the subscriptions of the application
    monitor,          \* routes/subscription.py:20-23, the module's globals
    tasks,            \* the asyncio tasks made of monitor_subscriptions()
    awaiting,         \* handlers suspended at `await _renewal_task`
    token_cache       \* GraphService._access_token and ._token_expires_at

\* the state of the subscription routes and of the renewal monitor
mvars == <<subscriptions, monitor, tasks, awaiting, token_cache>>

vars == <<now, recent_messages, reactions, pages, request, response, log,
          body_read, subscriptions, monitor, tasks, awaiting, token_cache>>

None == "None"

(***************************************************************************)
(* Program constants.                                                      *)
(***************************************************************************)
TICKET_EMOJI == "ticket"            \* routes/webhooks.py:35, the ticket emoji
REACTION_POLL_INTERVAL == 30
MESSAGE_POLL_RETENTION == 300
webhook_client_state == "s3cret"    \* settings.webhook_client_state
allowed_users == {"alice@corp.com"} \* settings.allowed_users, parsed

(***************************************************************************)
(* Bounds of the model.                                                    *)
(***************************************************************************)
MaxTicks == 1       \* clock steps of one poll interval each
MaxBatch == 2       \* change notifications per delivered batch
MaxReactions == 1   \* reactions added to all messages together
MaxTickets == 2     \* pages per message id the store is let grow to

(***************************************************************************)
(* The channel messages that exist in Graph, by (team, channel, message).  *)
(***************************************************************************)
Messages == {"M1", "M2"}
KeyOf(m) == <<"T1", "C1", m>>
Keys == {KeyOf(m) : m \in Messages}

\* message.from_.user.id: M1 has an author id, M2 has none
AuthorId(key) == IF key[3] = "M1" THEN "bob-id" ELSE None

(***************************************************************************)
(* A Python dict as the sequence of its items, in insertion order.         *)
(***************************************************************************)
DictKeys(d) == {d[i].key : i \in 1..Len(d)}
DictHas(d, k) == k \in DictKeys(d)
DictGet(d, k) == (CHOOSE i \in 1..Len(d) : d[i].key = k)
DictValue(d, k) == d[DictGet(d, k)].value
\* d[k] = v
DictSet(d, k, v) ==
    IF DictHas(d, k)
    THEN [d EXCEPT ![DictGet(d, k)].value = v]
    ELSE Append(d, [key |-> k, value |-> v])
\* d.pop(k, None)
DictPop(d, k) ==
    IF DictHas(d, k)
    THEN LET i == DictGet(d, k)
         IN  SubSeq(d, 1, i - 1) \o SubSeq(d, i + 1, Len(d))
    ELSE d

(***************************************************************************)
(* Resource strings.  A resource is kept as its path segments, each a      *)
(* <<name, id>> pair, with the way it is written:                          *)
(*   "slash":  /teams/T1/channels/C1/messages/M1   (lead: leading slash)   *)
(*   "paren":  teams('T1')/channels('C1')/messages('M1')                   *)
(***************************************************************************)
Segs3(m) == << <<"teams", "T1">>, <<"channels", "C1">>, <<"messages", m>> >>
SlashRes(m) == [style |-> "slash", lead |-> TRUE, segs |-> Segs3(m)]
ParenRes(m) == [style |-> "paren", lead |-> FALSE, segs |-> Segs3(m)]
\* teams/T1/channels/C1/messages/M1: no slash in front of "teams"
BareRes(m) == [style |-> "slash", lead |-> FALSE, segs |-> Segs3(m)]
\* /users/u1/events/e1
EventRes == [style |-> "slash", lead |-> TRUE,
             segs |-> << <<"users", "u1">>, <<"events", "e1">> >>]

\* the empty string
EmptyRes == [style |-> "slash", lead |-> FALSE, segs |-> <<>>]

\* a "/" stands in front of segment i
SlashBefore(r, i) == i > 1 \/ r.lead

\* "/messages" in change.resource or "messages(" in change.resource
IsMessageResource(r) ==
    \E i \in 1..Len(r.segs) :
        /\ r.segs[i][1] = "messages"
        /\ \/ SlashBefore(r, i)
           \/ r.style = "paren" /\ r.segs[i][2] # ""

\* pattern1 (slash form) and pattern2 (parenthesised form) of the source
MatchAt(r, i) ==
    /\ i + 2 <= Len(r.segs)
    /\ r.segs[i][1] = "teams" /\ r.segs[i][2] # ""
    /\ r.segs[i + 1][1] = "channels" /\ r.segs[i + 1][2] # ""
    /\ r.segs[i + 2][1] = "messages" /\ r.segs[i + 2][2] # ""
    /\ \/ r.style = "slash" /\ SlashBefore(r, i)
       \/ r.style = "paren"

extract_team_channel_from_resource(r) ==
    IF \E i \in 1..Len(r.segs) : MatchAt(r, i)
    THEN LET i == CHOOSE j \in 1..Len(r.segs) :
                      MatchAt(r, j) /\ \A k \in 1..(j - 1) : ~MatchAt(r, k)
         IN  [ok |-> TRUE,
              key |-> <<r.segs[i][2], r.segs[i + 1][2], r.segs[i + 2][2]>>]
    ELSE [ok |-> FALSE, key |-> <<>>]

(***************************************************************************)
(* utils/auth.py and utils/validation.py                                   *)
(***************************************************************************)
verify_webhook_client_state(client_state) ==
    client_state = webhook_client_state

\* Python truthiness of an Optional[str]
Truthy(s) == s # None /\ s # ""

\* email.lower().strip(), on the identities the model uses
LowerStrip(email) ==
    IF email = " Alice@Corp.com" THEN "alice@corp.com" ELSE email

\* a variant of is_user_allowed that accepts every identity that is present
is_user_present(email) == Truthy(email)

is_user_allowed(email) ==
    IF ~Truthy(email) THEN FALSE ELSE LowerStrip(email) \in allowed_users

(***************************************************************************)
(* Reactions of a message (models/webhook_models.py MessageReaction).      *)
(***************************************************************************)
Reaction(type, identity, id) ==
    [reactionType |-> type, user |-> [userIdentity |-> identity, id |-> id]]

ReactionKinds ==
    { Reaction(TICKET_EMOJI, "alice@corp.com", None),
      Reaction(TICKET_EMOJI, None, "mallory@evil.com"),
      Reaction("like", "alice@corp.com", None) }

\* for reaction in message.reactions: if reaction.reactionType == TICKET_EMOJI: break
FirstTicketReaction(rs) ==
    IF \E i \in 1..Len(rs) : rs[i].reactionType = TICKET_EMOJI
    THEN CHOOSE i \in 1..Len(rs) :
             /\ rs[i].reactionType = TICKET_EMOJI
             /\ \A j \in 1..(i - 1) : rs[j].reactionType # TICKET_EMOJI
    ELSE 0

\* reacting_user.get("userIdentity", {}).get("id") or reacting_user.get("id")
ReactingUser(r) ==
    IF Truthy(r.user.userIdentity) THEN r.user.userIdentity ELSE r.user.id

(***************************************************************************)
(* Outcomes of the external calls one item makes: TRUE when the call is    *)
(* answered, FALSE when it raises (HTTP error, timeout, token failure).    *)
(***************************************************************************)
EnvOk == [get |-> TRUE, approver |-> TRUE, author |-> TRUE,
          channel |-> TRUE, query |-> TRUE, page |-> TRUE]
EnvFields == {"get", "approver", "author", "channel", "query", "page"}
Envs == {EnvOk} \cup {[EnvOk EXCEPT ![f] = FALSE] : f \in EnvFields}

\* a call in the log: its name, with "!" when it raised
Call(name, ok) == IF ok THEN name ELSE name \o "!"

(***************************************************************************)
(* services/notion_service.py                                              *)
(***************************************************************************)
\* the database query; a failed query is swallowed and answers False
ticket_exists(pgs, teams_message_id, env) ==
    IF env.query THEN pgs[teams_message_id] > 0 ELSE FALSE

\* outcome: "created" | "ValueError" (already exists) | "Exception"
\* (the people-property lookups of lines 276 and 298 swallow their own
\* failures and touch only the user-id cache)
create_ticket(pgs, teams_message_id, env) ==
    IF ticket_exists(pgs, teams_message_id, env)
    THEN [pages |-> pgs, outcome |-> "ValueError",
          calls |-> <<Call("query", env.query)>>]
    ELSE IF env.page
    THEN [pages |-> [pgs EXCEPT ![teams_message_id] = @ + 1],
          outcome |-> "created",
          calls |-> <<Call("query", env.query), "pages">>]
    ELSE [pages |-> pgs, outcome |-> "Exception",
          calls |-> <<Call("query", env.query), "pages!">>]

(***************************************************************************)
(* routes/webhooks.py: process_message_reaction.                           *)
(* rec, pgs: _recent_messages and the store before; rx: Graph's reactions; *)
(* t: time.time().  Result: the two after, the log entry of the item, and  *)
(* `raised`: the coroutine ended by re-raising (line 468).                 *)
(***************************************************************************)
\* `sent`: the identity and channel fields create_ticket was called with
NoFields == [approved_by_email |-> None, requester_email |-> None, teams_channel |-> None]
Entry(m, tag, calls) == [m |-> m, tag |-> tag, calls |-> calls, sent |-> NoFields]

Handled(rec, pgs, m, tag, calls, raised) ==
    [recent |-> rec, pages |-> pgs, entry |-> Entry(m, tag, calls),
     raised |-> raised]

\* lines 377-411: identity and channel lookups, each in its own try/except
LookupCalls(key, env) ==
    <<Call("get_user_info", env.approver)>>
    \o (IF Truthy(AuthorId(key))
        THEN <<Call("get_user_info", env.author)>> ELSE <<>>)
    \o <<Call("get_channel_info", env.channel)>>

\* what Graph's directory answers: user_info.get("mail") or
\* user_info.get("userPrincipalName") or the id asked for, and
\* channel_info.get("displayName", channel_id)
UserMail(id) == IF id = "bob-id" THEN "bob@corp.com" ELSE id
ChannelName(channel_id) == "General"

\* a variant of TicketFields that leaves a field empty when its lookup failed
TicketFieldsLookedUp(user, key, env) ==
    [approved_by_email |-> IF env.approver THEN UserMail(user) ELSE None,
     requester_email |->
         IF Truthy(AuthorId(key)) /\ env.author
         THEN UserMail(AuthorId(key)) ELSE "Unknown",
     teams_channel |-> IF env.channel THEN ChannelName(key[2]) ELSE None]

\* lines 377-411: approved_by_email, requester_email and channel_name, each
\* the raw id when its lookup raised; "Unknown" when the author has no id
TicketFields(user, key, env) ==
    [approved_by_email |-> IF env.approver THEN UserMail(user) ELSE user,
     requester_email |->
         IF ~Truthy(AuthorId(key)) THEN "Unknown"
         ELSE IF env.author THEN UserMail(AuthorId(key)) ELSE AuthorId(key),
     teams_channel |-> IF env.channel THEN ChannelName(key[2]) ELSE key[2]]

\* lines 445-456: the keyword arguments of the call of create_ticket
Sent(h, fields) == [h EXCEPT !.entry.sent = fields]

\* a variant of Track that keeps the first-seen time of a key already tracked
TrackOnce(rec, key, t) ==
    IF DictHas(rec, key) THEN rec ELSE DictSet(rec, key, t)

\* line 364: _recent_messages[(team_id, channel_id, message_id)] = time.time()
Track(rec, key, t) == DictSet(rec, key, t)

\* lines 443-468: the call of create_ticket and the three ways it ends
AfterCreate(made, rec, pgs, key, calls) ==
    CASE made.outcome = "created" ->
            Handled(DictPop(rec, key), made.pages, key[3], "created",
                    calls \o made.calls, FALSE)
      [] made.outcome = "ValueError" ->
            Handled(rec, pgs, key[3], "duplicate", calls \o made.calls, FALSE)
      [] OTHER ->
            Handled(rec, pgs, key[3], "create_failed", calls \o made.calls, TRUE)

\* lines 348-456: i is the place of the first ticket reaction, 0 if none
AfterFetch(i, rec, pgs, key, env, t, rx) ==
    IF i = 0
    THEN Handled(Track(rec, key, t), pgs, key[3], "tracked", <<"get_message">>, FALSE)
    ELSE IF ~is_user_allowed(ReactingUser(rx[key][i]))
    THEN Handled(rec, pgs, key[3], "not_allowed", <<"get_message">>, FALSE)
    ELSE Sent(AfterCreate(create_ticket(pgs, key[3], env), rec, pgs, key,
                          <<"get_message">> \o LookupCalls(key, env)),
              TicketFields(ReactingUser(rx[key][i]), key, env))

\* lines 342-346: graph_service.get_message raises when Graph does
AfterParse(resource_info, rec, pgs, env, t, rx) ==
    IF ~resource_info.ok
    THEN Handled(rec, pgs, "-", "unparsed", <<>>, FALSE)
    ELSE IF ~env.get \/ resource_info.key \notin Keys
    THEN Handled(rec, pgs, resource_info.key[3], "fetch_failed",
                 <<"get_message!">>, TRUE)
    ELSE AfterFetch(FirstTicketReaction(rx[resource_info.key]), rec, pgs,
                    resource_info.key, env, t, rx)

process_message_reaction(rec, pgs, notification, env, t, rx) ==
    AfterParse(extract_team_channel_from_resource(notification.resource),
               rec, pgs, env, t, rx)

\* line 620
ClientStateRejected(change) ==
    Truthy(change.clientState) /\ ~verify_webhook_client_state(change.clientState)

\* a variant of LoopGoesOn without the try/except around the item
LoopStopsOnError(raised) == ~raised

\* lines 638-640: the except clause of the loop body swallows what was raised
LoopGoesOn(raised) == TRUE

\* a variant of HandleChange that processes a message item whatever its
\* change type is
HandleAnyChange(rec, pgs, change, env, t, rx) ==
    IF ClientStateRejected(change)
    THEN Handled(rec, pgs, "-", "bad_client_state", <<>>, FALSE)
    ELSE IF IsMessageResource(change.resource)
    THEN process_message_reaction(rec, pgs, change, env, t, rx)
    ELSE Handled(rec, pgs, "-", "ignored_resource", <<>>, FALSE)

\* lines 618-640: the body of the loop over notification.value
HandleChange(rec, pgs, change, env, t, rx) ==
    IF ClientStateRejected(change)
    THEN Handled(rec, pgs, "-", "bad_client_state", <<>>, FALSE)
    ELSE IF IsMessageResource(change.resource)
    THEN IF change.changeType \in {"created", "updated"}
         THEN process_message_reaction(rec, pgs, change, env, t, rx)
         ELSE Handled(rec, pgs, "-", "ignored_change_type", <<>>, FALSE)
    ELSE Handled(rec, pgs, "-", "ignored_resource", <<>>, FALSE)

\* line 617: for change in notification.value; h is the first item, handled
RECURSIVE ProcessChanges(_, _, _, _, _, _, _)
AfterChange(h, lg, value, envs, t, rx) ==
    IF LoopGoesOn(h.raised)
    THEN ProcessChanges(h.recent, h.pages, Append(lg, h.entry),
                        Tail(value), Tail(envs), t, rx)
    ELSE [recent |-> h.recent, pages |-> h.pages, log |-> Append(lg, h.entry)]

ProcessChanges(rec, pgs, lg, value, envs, t, rx) ==
    IF value = <<>>
    THEN [recent |-> rec, pages |-> pgs, log |-> lg]
    ELSE AfterChange(HandleChange(rec, pgs, Head(value), Head(envs), t, rx),
                     lg, value, envs, t, rx)

(***************************************************************************)
(* Query strings.  A string is the sequence of its characters; the words   *)
(* "validationToken", "validationToke%6E" (the same name with its last     *)
(* letter percent-encoded) and "other" (another parameter's name) are      *)
(* kept whole; <<"x", "validationToken">> is the name xvalidationToken.    *)
(***************************************************************************)
HexDigits == {"0", "2", "5", "B"}
HexVal(c) == CASE c = "0" -> 0 [] c = "2" -> 2 [] c = "5" -> 5 [] c = "B" -> 11

\* chr(code) for the codes two of these digits can spell; a byte above
\* 127 alone is not UTF-8 and decodes to the replacement character
CharOf(code) ==
    CASE code = 32 -> " "
      [] code = 34 -> "\""
      [] code = 37 -> "%"
      [] code = 43 -> "+"
      [] code = 80 -> "P"
      [] code = 82 -> "R"
      [] code = 85 -> "U"
      [] code = 91 -> "["
      [] code >= 128 -> "U+FFFD"
      [] OTHER -> "ctrl"

\* urllib.parse.unquote: %XX becomes the character, any other % stays
RECURSIVE unquote(_)
unquote(s) ==
    IF s = <<>> THEN <<>>
    ELSE IF /\ Head(s) = "%" /\ Len(s) >= 3
            /\ s[2] \in HexDigits /\ s[3] \in HexDigits
    THEN <<CharOf(16 * HexVal(s[2]) + HexVal(s[3]))>> \o unquote(SubSeq(s, 4, Len(s)))
    ELSE IF Head(s) = "validationToke%6E"
    THEN <<"validationToken">> \o unquote(Tail(s))
    ELSE <<Head(s)>> \o unquote(Tail(s))

\* urllib.parse.unquote_plus: '+' becomes ' ', then unquote
unquote_plus(s) ==
    unquote([i \in 1..Len(s) |-> IF s[i] = "+" THEN " " ELSE s[i]])

\* str.find(sub, start) for a one-character sub; 0 when absent
RECURSIVE FindFrom(_, _, _)
FindFrom(s, c, start) ==
    IF start > Len(s) THEN 0
    ELSE IF s[start] = c THEN start
    ELSE FindFrom(s, c, start + 1)

\* query_string.find("validationToken="): where the text after it starts
TokenStart(q) ==
    IF \E i \in 1..(Len(q) - 1) : q[i] = "validationToken" /\ q[i + 1] = "="
    THEN (CHOOSE i \in 1..(Len(q) - 1) :
              /\ q[i] = "validationToken" /\ q[i + 1] = "="
              /\ \A j \in 1..(i - 1) : ~(q[j] = "validationToken" /\ q[j + 1] = "="))
         + 2
    ELSE 0

\* Starlette's request.query_params: parse_qsl(query, keep_blank_values=True)
RECURSIVE SplitOn(_, _)
SplitAt(s, c, i) ==
    IF i = 0 THEN <<s>>
    ELSE <<SubSeq(s, 1, i - 1)>> \o SplitOn(SubSeq(s, i + 1, Len(s)), c)

SplitOn(s, c) == SplitAt(s, c, FindFrom(s, c, 1))

PairAt(p, i) ==
    IF i = 0
    THEN [name |-> unquote_plus(p), value |-> <<>>]
    ELSE [name |-> unquote_plus(SubSeq(p, 1, i - 1)),
          value |-> unquote_plus(SubSeq(p, i + 1, Len(p)))]

QueryPair(p) == PairAt(p, FindFrom(p, "=", 1))

QueryPairs(parts) == [i \in 1..Len(parts) |-> QueryPair(parts[i])]

query_params(q) ==
    IF q = <<>> THEN <<>>
    ELSE QueryPairs(SelectSeq(SplitOn(q, "&"), LAMBDA p : p # <<>>))

\* the last value of the parameter among the pairs ps, None when absent
LastValue(ps, name) ==
    IF \A i \in 1..Len(ps) : ps[i].name # <<name>> THEN None
    ELSE ps[CHOOSE i \in 1..Len(ps) :
                /\ ps[i].name = <<name>>
                /\ \A j \in (i + 1)..Len(ps) : ps[j].name # <<name>>].value

\* request.query_params.get(name)
QueryGet(q, name) == LastValue(query_params(q), name)

\* truthiness of an Optional[str] held as a character sequence
HasText(v) == v # None /\ v # <<>>

\* lines 103-108: the text from token_start to the next "&" or to the end
TokenText(q, token_start, amp) ==
    unquote_plus(SubSeq(q, token_start, (IF amp = 0 THEN Len(q) + 1 ELSE amp) - 1))

TokenFrom(q, token_start) == TokenText(q, token_start, FindFrom(q, "&", token_start))

\* lines 113-119: the fallback to query_params
TokenFallback(validation_token) ==
    IF HasText(validation_token) THEN unquote_plus(validation_token) ELSE None

\* routes/webhooks.py:83, the token returned (None when there is none)
extract_validation_token(q) ==
    IF q # <<>> /\ TokenStart(q) # 0
    THEN TokenFrom(q, TokenStart(q))
    ELSE TokenFallback(QueryGet(q, "validationToken"))

(***************************************************************************)
(* The HTTP handlers.  A request body is [kind, value, envs]: kind is      *)
(* "empty", "malformed" (not JSON), "invalid" (JSON that is not a          *)
(* Notification) or "valid"; value is the batch of a valid body and envs   *)
(* the outcomes of the external calls each of its items will meet.         *)
(***************************************************************************)
Answer(status, body, rec, pgs, lg, read) ==
    [status |-> status, body |-> body, recent |-> rec, pages |-> pgs,
     log |-> lg, body_read |-> read]

\* PlainTextResponse("OK", status_code=202)
Accepted(rec, pgs, lg) == Answer(202, <<"O", "K">>, rec, pgs, lg, TRUE)

\* a variant of parse_notification_body that rejects what it cannot parse
parse_rejecting(body) ==
    IF body.kind = "empty" THEN [error |-> TRUE, status |-> 202]
    ELSE IF body.kind \in {"malformed", "invalid"}
    THEN [error |-> TRUE, status |-> 400]
    ELSE [error |-> FALSE, status |-> 0]

\* routes/webhooks.py:122; the error response, if the body did not parse
parse_notification_body(body) ==
    IF body.kind = "empty" THEN [error |-> TRUE, status |-> 202]
    ELSE IF body.kind \in {"malformed", "invalid"}
    THEN [error |-> TRUE, status |-> 202]
    ELSE [error |-> FALSE, status |-> 0]

\* if validation_token: return PlainTextResponse(validation_token, 200)
EchoOr(validation_token, otherwise, rec, pgs) ==
    IF HasText(validation_token)
    THEN Answer(200, validation_token, rec, pgs, <<>>, FALSE)
    ELSE otherwise

\* if error_response: return error_response
ErrorOr(error_response, otherwise, rec, pgs) ==
    IF error_response.error
    THEN Answer(error_response.status, <<"O", "K">>, rec, pgs, <<>>, TRUE)
    ELSE otherwise

\* routes/webhooks.py:617-643, done being what the loop leaves
AcceptedAfter(done) == Accepted(done.recent, done.pages, done.log)

webhook_notification(rec, pgs, query, body, t, rx) ==
    EchoOr(extract_validation_token(query),
           ErrorOr(parse_notification_body(body),
                   AcceptedAfter(ProcessChanges(rec, pgs, <<>>, body.value,
                                                body.envs, t, rx)),
                   rec, pgs),
           rec, pgs)

\* routes/webhooks.py:542-554: lifecycle events are logged, nothing else
LifecycleLog(value) == [i \in 1..Len(value) |-> Entry("-", "lifecycle_event", <<>>)]

\* routes/webhooks.py:514
webhook_lifecycle(rec, pgs, query, body) ==
    EchoOr(extract_validation_token(query),
           ErrorOr(parse_notification_body(body),
                   Accepted(rec, pgs, LifecycleLog(body.value)),
                   rec, pgs),
           rec, pgs)

\* main.py:57-60: PlainTextResponse(unquote_plus(token))
DecodedEchoOr(token, otherwise, rec, pgs) ==
    IF HasText(token)
    THEN Answer(200, unquote_plus(token), rec, pgs, <<>>, FALSE)
    ELSE otherwise

\* main.py:41
graph_validation(rec, pgs, query, body, t, rx) ==
    DecodedEchoOr(QueryGet(query, "validationToken"),
                  webhook_notification(rec, pgs, query, body, t, rx),
                  rec, pgs)

\* routes/webhooks.py:156
webhook_root(rec, pgs, query) ==
    EchoOr(extract_validation_token(query),
           Answer(404, <<>>, rec, pgs, <<>>, FALSE), rec, pgs)

\* routes/webhooks.py:471; FastAPI binds the parameter from query_params
webhook_validation(rec, pgs, query) ==
    EchoOr(QueryGet(query, "validationToken"),
           Answer(400, <<>>, rec, pgs, <<>>, FALSE), rec, pgs)

\* routes/webhooks.py:493
webhook_lifecycle_validation(rec, pgs, query) ==
    EchoOr(QueryGet(query, "validationToken"),
           Answer(400, <<>>, rec, pgs, <<>>, FALSE), rec, pgs)

TokenEndpoints == {"/webhook", "/webhook/validation", "/webhook/lifecycle/validation"}
BodyEndpoints == {"/webhook/notification", "/webhook/lifecycle", "/graph/validate"}
Endpoints == TokenEndpoints \cup BodyEndpoints

Route(endpoint, rec, pgs, query, body, t, rx) ==
    CASE endpoint = "/webhook" -> webhook_root(rec, pgs, query)
      [] endpoint = "/webhook/validation" -> webhook_validation(rec, pgs, query)
      [] endpoint = "/webhook/lifecycle/validation" ->
             webhook_lifecycle_validation(rec, pgs, query)
      [] endpoint = "/webhook/notification" ->
             webhook_notification(rec, pgs, query, body, t, rx)
      [] endpoint = "/webhook/lifecycle" -> webhook_lifecycle(rec, pgs, query, body)
      [] endpoint = "/graph/validate" ->
             graph_validation(rec, pgs, query, body, t, rx)

(***************************************************************************)
(* The requests the model delivers.                                        *)
(***************************************************************************)
Change(changeType, clientState, resource) ==
    [changeType |-> changeType, clientState |-> clientState, resource |-> resource]

\* items that reach process_message_reaction
MessageItems ==
    { Change("created", None, SlashRes("M1")),
      Change("updated", webhook_client_state, ParenRes("M2")),
      Change("created", "", SlashRes("M1")) }

\* items that are rejected, ignored or cannot be parsed
OtherItems ==
    { Change("created", "wrong", SlashRes("M1")),
      Change("deleted", None, SlashRes("M1")),
      Change("created", None, EventRes),
      Change("created", webhook_client_state, BareRes("M1")) }

Items == MessageItems \cup OtherItems

\* an item together with the outcomes of the calls it will make
Firsts ==
    ({Change("created", None, SlashRes("M1"))} \X Envs) \cup (Items \X {EnvOk})
Nexts == { <<Change("created", None, SlashRes("M1")), EnvOk>>,
           <<Change("updated", webhook_client_state, ParenRes("M2")), EnvOk>> }

RECURSIVE PlansOfLen(_)
PlansOfLen(n) ==
    IF n = 1 THEN {<<f>> : f \in Firsts}
    ELSE {p \o <<s>> : p \in PlansOfLen(n - 1), s \in Nexts}

Plans == {<<>>} \cup UNION {PlansOfLen(n) : n \in 1..MaxBatch}

ValidBody(plan) ==
    [kind |-> "valid",
     value |-> [i \in 1..Len(plan) |-> plan[i][1]],
     envs |-> [i \in 1..Len(plan) |-> plan[i][2]]]
NoBody(kind) == [kind |-> kind, value |-> <<>>, envs |-> <<>>]

\* raw values of the validationToken parameter, none of them empty
RawTokens ==
    { <<"x", "+", "x">>,
      <<"x", "%", "2", "0", "x">>,
      <<"x", "%", "2", "5", "2", "0", "x">>,
      <<"%", "x">> }

TokenQueries ==
    {<<"validationToken", "=">> \o v : v \in RawTokens}
    \cup {<<"other", "=", "x", "&", "validationToken", "=">> \o v
              \o <<"&", "other", "=", "x">> : v \in {<<"x", "%", "2", "0", "x">>}}
    \cup {<<"validationToke%6E", "=">> \o v : v \in {<<"x", "%", "2", "B", "x">>}}
    \cup {<<"x", "validationToken", "=", "&", "validationToken", "=">> \o v :
              v \in {<<"x", "%", "2", "0", "x">>}}

PlainQueries == {<<>>, <<"other", "=", "x">>, <<"validationToken", "=">>}

HttpPlans ==
    {<<>>}
    \cup {<<<<Change("created", None, SlashRes("M1")), e>>>> : e \in Envs}
    \cup {<<<<Change("created", "wrong", SlashRes("M1")), EnvOk>>,
            <<Change("created", None, SlashRes("M1")), EnvOk>>>>}

HttpBodies ==
    {NoBody(k) : k \in {"empty", "malformed", "invalid"}}
    \cup {ValidBody(p) : p \in HttpPlans}

\* with a token in the query, the bodies that would matter most if read
TokenBodies ==
    { NoBody("malformed"),
      ValidBody(<<<<Change("created", None, SlashRes("M1")), EnvOk>>>>) }

\* the lifecycle handler makes no external call
LifecycleBodies ==
    {NoBody(k) : k \in {"empty", "malformed", "invalid"}}
    \cup {ValidBody(<<<<Change("created", None, SlashRes("M1")), EnvOk>>>>)}

HttpRequests ==
    (TokenEndpoints \X (TokenQueries \cup PlainQueries) \X {NoBody("empty")})
    \cup (BodyEndpoints \X TokenQueries \X TokenBodies)
    \cup ({"/webhook/notification", "/graph/validate"} \X PlainQueries \X HttpBodies)
    \cup ({"/webhook/lifecycle"} \X PlainQueries \X LifecycleBodies)

(***************************************************************************)
(* Actions.                                                                *)
(***************************************************************************)
NoPages == [m \in Messages |-> 0]
NoReactions == [m \in Keys |-> <<>>]
NoRequest == [endpoint |-> None, query |-> <<>>, kind |-> None, value |-> <<>>]
NoResponse == [status |-> 0, body |-> <<>>]

\* the subscriptions Graph can hold for the application, and the tasks the
\* event loop can hold
SubIds == {"S1", "S2"}
MaxTasks == 2
TaskIds == 1..MaxTasks
NoSubscription == [state |-> "absent", resource |-> EmptyRes, expires |-> 0]
\* _renewal_task (0: None), _renewal_running, _renewal_check_interval and
\* _last_check_time (0 - 1: None) at import
NoMonitor == [task |-> 0, running |-> FALSE, interval |-> 300, last_check |-> 0 - 1]
NoTask == [pc |-> "none", cancel |-> FALSE, wake |-> 0]
\* graph_service.py:33-34: no token, no expiry
NoToken == [access_token |-> None, has_expiry |-> FALSE, token_expires_at |-> 0]

Init ==
    /\ now = 0
    /\ recent_messages = <<>>
    /\ reactions = NoReactions
    /\ pages = NoPages
    /\ request = NoRequest
    /\ response = NoResponse
    /\ log = <<>>
    /\ body_read = FALSE
    /\ subscriptions = [id \in SubIds |-> NoSubscription]
    /\ monitor = NoMonitor
    /\ tasks = [i \in TaskIds |-> NoTask]
    /\ awaiting = <<>>
    /\ token_cache = NoToken

\* the state after a request that was answered with r
Respond(r, endpoint, query, body) ==
    /\ \A m \in Messages : r.pages[m] <= MaxTickets
    /\ recent_messages' = r.recent
    /\ pages' = r.pages
    /\ request' = [endpoint |-> endpoint, query |-> query,
                   kind |-> body.kind, value |-> body.value]
    /\ response' = [status |-> r.status, body |-> r.body]
    /\ log' = r.log
    /\ body_read' = r.body_read
    /\ UNCHANGED <<now, reactions>>
    /\ UNCHANGED mvars

\* one request, from its arrival to its response
Serve(endpoint, query, body) ==
    Respond(Route(endpoint, recent_messages, pages, query, body, now, reactions),
            endpoint, query, body)

\* Graph delivers a batch of change notifications
Deliver == \E p \in Plans : Serve("/webhook/notification", <<>>, ValidBody(p))

\* any client sends any request
Http == \E h \in HttpRequests : Serve(h[1], h[2], h[3])

\* a Teams user reacts to a channel message
React(key, r) ==
    /\ Len(reactions[KeyOf("M1")]) + Len(reactions[KeyOf("M2")]) < MaxReactions
    /\ reactions' = [reactions EXCEPT ![key] = Append(@, r)]
    /\ UNCHANGED <<now, recent_messages, pages, request, response, log, body_read>>
    /\ UNCHANGED mvars

AddReaction == \E key \in Keys, r \in ReactionKinds : React(key, r)

\* time passes
Tick ==
    /\ now < MaxTicks * REACTION_POLL_INTERVAL
    /\ now' = now + REACTION_POLL_INTERVAL
    /\ UNCHANGED <<recent_messages, reactions, pages, request, response, log, body_read>>
    /\ UNCHANGED mvars

Next == Deliver \/ AddReaction \/ Tick
Spec == Init /\ [][Next]_vars

\* the requests of HttpRequests name no other message than M1
ReactToM1 == \E r \in ReactionKinds : React(KeyOf("M1"), r)

NextHttp == Http \/ ReactToM1
SpecHttp == Init /\ [][NextHttp]_vars

\* the running service with the clock going on; a notification may never come
FairSpec == Init /\ [][Next]_vars /\ WF_vars(Tick)

\* NotionService.create_ticket called on its own
StoreCall == "NotionService.create_ticket"
RequesterEmails == {"bob@corp.com", "bob-id", "Unknown"}

Stored(made, teams_message_id, requester_email) ==
    /\ made.pages[teams_message_id] <= MaxTickets
    /\ pages' = made.pages
    /\ request' = [endpoint |-> StoreCall,
                   teams_message_id |-> teams_message_id,
                   requester_email |-> requester_email]
    /\ log' = <<Entry(teams_message_id, made.outcome, made.calls)>>
    /\ UNCHANGED <<now, recent_messages, reactions, response, body_read>>
    /\ UNCHANGED mvars

CreateTicket(teams_message_id, requester_email, env) ==
    Stored(create_ticket(pages, teams_message_id, env),
           teams_message_id, requester_email)

NextStore ==
    \E m \in Messages, e \in RequesterEmails, env \in Envs : CreateTicket(m, e, env)
SpecStore == Init /\ [][NextStore]_vars

(***************************************************************************)
(* routes/webhooks.py: poll_messages_for_reactions, one pass of its loop   *)
(* (the sleep of REACTION_POLL_INTERVAL and the walk over a snapshot of    *)
(* _recent_messages).  No code schedules the coroutine; SpecPolling is the *)
(* service with the coroutine run as a task.                               *)
(***************************************************************************)
MaxPolls == 2       \* passes of the poller
MaxMarkers == 2     \* reactions added to all messages together, SpecPolling

PollerRun == "poll_messages_for_reactions"

\* lines 296-317: create_ticket and the two except clauses around it
PollAfterCreate(made, rec, pgs, key, calls) ==
    CASE made.outcome = "created" ->
            Handled(rec, made.pages, key[3], "created", calls \o made.calls, FALSE)
      [] made.outcome = "ValueError" ->
            Handled(rec, pgs, key[3], "duplicate", calls \o made.calls, FALSE)
      [] OTHER ->
            Handled(rec, pgs, key[3], "create_failed", calls \o made.calls, FALSE)

\* lines 207-309: i is the place of the first ticket reaction, 0 if none;
\* the key is popped (line 218) before the reacting user is looked at
PollAfterFetch(i, rec, pgs, key, env, rx) ==
    IF i = 0
    THEN Handled(rec, pgs, key[3], "waiting", <<"get_message">>, FALSE)
    ELSE IF ~is_user_allowed(ReactingUser(rx[key][i]))
    THEN Handled(DictPop(rec, key), pgs, key[3], "not_allowed",
                 <<"get_message">>, FALSE)
    ELSE Sent(PollAfterCreate(create_ticket(pgs, key[3], env), DictPop(rec, key),
                              pgs, key, <<"get_message">> \o LookupCalls(key, env)),
              TicketFields(ReactingUser(rx[key][i]), key, env))

\* a variant of PollMessage that drops an entry as soon as its age reaches
\* the retention
PollMessageEarly(rec, pgs, item, env, t, rx) ==
    IF t - item.value >= MESSAGE_POLL_RETENTION
    THEN Handled(DictPop(rec, item.key), pgs, item.key[3], "expired", <<>>, FALSE)
    ELSE IF ~env.get
    THEN Handled(rec, pgs, item.key[3], "fetch_failed", <<"get_message!">>, FALSE)
    ELSE PollAfterFetch(FirstTicketReaction(rx[item.key]), rec, pgs,
                        item.key, env, rx)

\* lines 196-321: the body of the loop over messages_to_check
PollMessage(rec, pgs, item, env, t, rx) ==
    IF t - item.value > MESSAGE_POLL_RETENTION
    THEN Handled(DictPop(rec, item.key), pgs, item.key[3], "expired", <<>>, FALSE)
    ELSE IF ~env.get
    THEN Handled(rec, pgs, item.key[3], "fetch_failed", <<"get_message!">>, FALSE)
    ELSE PollAfterFetch(FirstTicketReaction(rx[item.key]), rec, pgs,
                        item.key, env, rx)

\* line 196: for ... in messages_to_check; h is the first item, handled
RECURSIVE PollMessages(_, _, _, _, _, _, _)
\* a variant of AfterPolled without the try/except of lines 203 and 319:
\* what a message raises ends the pass at the except clause of line 323
AfterPolledOrRaise(h, lg, items, envs, t, rx) ==
    IF h.entry.tag \in {"fetch_failed", "create_failed"}
    THEN [recent |-> h.recent, pages |-> h.pages, log |-> Append(lg, h.entry)]
    ELSE PollMessages(h.recent, h.pages, Append(lg, h.entry),
                      Tail(items), Tail(envs), t, rx)

AfterPolled(h, lg, items, envs, t, rx) ==
    PollMessages(h.recent, h.pages, Append(lg, h.entry),
                 Tail(items), Tail(envs), t, rx)

PollMessages(rec, pgs, lg, items, envs, t, rx) ==
    IF items = <<>>
    THEN [recent |-> rec, pages |-> pgs, log |-> lg]
    ELSE AfterPolled(PollMessage(rec, pgs, Head(items), Head(envs), t, rx),
                     lg, items, envs, t, rx)

\* the outcomes of the calls made for each message of the snapshot
RECURSIVE EnvsOfLen(_)
EnvsOfLen(n) ==
    IF n = 0 THEN {<<>>}
    ELSE {<<e>> \o es : e \in Envs, es \in EnvsOfLen(n - 1)}

\* the state after a pass that ended as r at time t
Polled(r, t) ==
    /\ \A m \in Messages : r.pages[m] <= MaxTickets
    /\ now' = t
    /\ recent_messages' = r.recent
    /\ pages' = r.pages
    /\ request' = [endpoint |-> PollerRun, query |-> <<>>, kind |-> None,
                   value |-> recent_messages]
    /\ log' = r.log
    /\ UNCHANGED <<reactions, response, body_read>>
    /\ UNCHANGED mvars

\* lines 185-188: the sleep, then the pass over list(_recent_messages.items())
PollTick ==
    /\ now < MaxPolls * REACTION_POLL_INTERVAL
    /\ \E envs \in EnvsOfLen(Len(recent_messages)) :
           Polled(PollMessages(recent_messages, pages, <<>>, recent_messages,
                               envs, now + REACTION_POLL_INTERVAL, reactions),
                  now + REACTION_POLL_INTERVAL)

\* the markers Teams users put on messages while the poller runs
MarkerKinds ==
    { Reaction(TICKET_EMOJI, "alice@corp.com", None),
      Reaction(TICKET_EMOJI, " Alice@Corp.com", None),
      Reaction(TICKET_EMOJI, None, "mallory@evil.com"),
      Reaction(TICKET_EMOJI, None, None) }

AddMarker ==
    /\ Len(reactions[KeyOf("M1")]) + Len(reactions[KeyOf("M2")]) < MaxMarkers
    /\ \E key \in Keys, r \in MarkerKinds :
           reactions' = [reactions EXCEPT ![key] = Append(@, r)]
    /\ UNCHANGED <<now, recent_messages, pages, request, response, log, body_read>>
    /\ UNCHANGED mvars

\* single notifications, as Graph sends them for a new channel message
PollPlans ==
    {<<<<Change("created", None, SlashRes("M1")), e>>>> : e \in Envs}
    \cup {<<<<Change("updated", webhook_client_state, ParenRes("M2")), EnvOk>>>>}

DeliverOne == \E p \in PollPlans : Serve("/webhook/notification", <<>>, ValidBody(p))

NextPolling == DeliverOne \/ AddMarker \/ PollTick
SpecPolling == Init /\ [][NextPolling]_vars

(***************************************************************************)
(* Datetimes.  A datetime is its wall-clock reading in seconds and its     *)
(* tzinfo: "naive" (none), "+00:00" (timezone.utc) or "+05:30".  A         *)
(* timestamp string is the reading it starts with and the sequence of the  *)
(* offset and "Z" suffixes that follow it.                                 *)
(***************************************************************************)
Zones == {"naive", "+00:00", "+05:30"}
UtcOffset(tz) == IF tz = "+05:30" THEN 19800 ELSE 0

DateTime(wall, tz) == [wall |-> wall, tz |-> tz]
\* the datetime of zone tz that reads the instant i (naive read as UTC)
AtInstant(i, tz) == DateTime(i + UtcOffset(tz), tz)
\* seconds since the epoch
Instant(d) == d.wall - UtcOffset(d.tz)
\* datetime.now(timezone.utc) at time t
UtcNow(t) == DateTime(t, "+00:00")

\* datetime.isoformat()
isoformat(d) ==
    [wall |-> d.wall, parts |-> IF d.tz = "naive" THEN <<>> ELSE <<d.tz>>]

\* str.replace(old, new) for a suffix old
Replace(str, old, new) ==
    [str EXCEPT !.parts = [i \in 1..Len(str.parts) |->
                              IF str.parts[i] = old THEN new ELSE str.parts[i]]]

\* str.endswith(part) for a suffix part
EndsWith(str, part) ==
    Len(str.parts) > 0 /\ str.parts[Len(str.parts)] = part

\* str + part
Plus(str, part) == [str EXCEPT !.parts = Append(@, part)]

\* utils/graph_subscriptions.py:76-80 and services/graph_service.py:375-379
FormatExpiration(d) ==
    IF EndsWith(isoformat(d), "+00:00")
    THEN Replace(isoformat(d), "+00:00", "Z")
    ELSE IF ~EndsWith(isoformat(d), "Z")
    THEN Plus(isoformat(d), "Z")
    ELSE isoformat(d)

\* datetime.fromisoformat: a reading, then at most one offset
fromisoformat(str) ==
    IF str.parts = <<>>
    THEN [ok |-> TRUE, value |-> DateTime(str.wall, "naive")]
    ELSE IF Len(str.parts) = 1 /\ str.parts[1] \in {"+00:00", "+05:30"}
    THEN [ok |-> TRUE, value |-> DateTime(str.wall, str.parts[1])]
    ELSE [ok |-> FALSE, value |-> DateTime(0, "naive")]

\* routes/subscription.py: ok is FALSE where the source returns None
parse_expiration_datetime(expiration_str) ==
    IF EndsWith(expiration_str, "Z")
    THEN fromisoformat(Replace(expiration_str, "Z", "+00:00"))
    ELSE fromisoformat(expiration_str)

(***************************************************************************)
(* utils/graph_subscriptions.py                                            *)
(***************************************************************************)
TEAMS_MAX_EXPIRATION == 3600

\* resource.startswith("/teams/")
StartsWithTeams(r) ==
    /\ r.lead
    /\ r.style = "slash"
    /\ r.segs[1][1] = "teams"
    /\ (r.segs[1][2] # "" \/ Len(r.segs) > 1)

\* "/messages" in resource
HasSlashMessages(r) ==
    \E i \in 1..Len(r.segs) : r.segs[i][1] = "messages" /\ SlashBefore(r, i)

\* lines 42-44
WithLeadingSlash(r) == [r EXCEPT !.lead = TRUE]

\* a variant of is_teams_messages without the test of the prefix
is_any_messages(r) == HasSlashMessages(r)

\* line 53, and routes/subscription.py:147 and 368
is_teams_messages(r) == StartsWithTeams(r) /\ HasSlashMessages(r)

\* ",".join(change_types)
RECURSIVE Join(_)
Join(list) ==
    IF Len(list) <= 1 THEN list
    ELSE <<Head(list), ",">> \o Join(Tail(list))

Payload(resource, change_types, notification_url, lifecycle, expiration) ==
    IF Truthy(lifecycle)
    THEN [resource |-> resource, changeType |-> Join(change_types),
          notificationUrl |-> notification_url,
          expirationDateTime |-> FormatExpiration(expiration),
          clientState |-> webhook_client_state,
          lifecycleNotificationUrl |-> lifecycle]
    ELSE [resource |-> resource, changeType |-> Join(change_types),
          notificationUrl |-> notification_url,
          expirationDateTime |-> FormatExpiration(expiration),
          clientState |-> webhook_client_state]

Raised(error) == [error |-> error, payload |-> [resource |-> None]]
Returned(payload) == [error |-> None, payload |-> payload]

\* lines 57-62
OnlyCreated(change_types) == <<"created">>

\* lines 55-73, with the expiration an aware datetime or a naive one, for
\* which the subtraction of line 65 raises TypeError
NormalizeTeams(resource, change_types, notification_url, lifecycle, expiration, t) ==
    IF expiration.tz = "naive"
    THEN Raised("TypeError")
    ELSE IF ~Truthy(lifecycle)
    THEN Raised("ValueError")
    ELSE Returned(Payload(resource, OnlyCreated(change_types), notification_url,
                          lifecycle,
                          IF Instant(expiration) - t > TEAMS_MAX_EXPIRATION
                          THEN AtInstant(t + TEAMS_MAX_EXPIRATION, "+00:00")
                          ELSE expiration))

\* lines 46-95, resource with its leading slash, expiration not None
NormalizeSlashed(resource, change_types, notification_url, lifecycle, expiration, t) ==
    IF is_teams_messages(resource)
    THEN NormalizeTeams(resource, change_types, notification_url, lifecycle,
                        expiration, t)
    ELSE Returned(Payload(resource, change_types, notification_url, lifecycle,
                          expiration))

\* has: expiration_datetime is not None; t: the time of the call
normalize_graph_subscription(resource, change_types, notification_url, lifecycle, has, expiration, t) ==
    NormalizeSlashed(WithLeadingSlash(resource), change_types, notification_url,
                     lifecycle,
                     IF has THEN expiration
                     ELSE AtInstant(t + TEAMS_MAX_EXPIRATION, "+00:00"),
                     t)

\* /teams/T1/channels/C1/messages, and the same without its leading slash
TeamsSub ==
    [style |-> "slash", lead |-> TRUE,
     segs |-> << <<"teams", "T1">>, <<"channels", "C1">>, <<"messages", "">> >>]
BareTeamsSub == [TeamsSub EXCEPT !.lead = FALSE]
\* /teams/T1/channels
ChannelsSub ==
    [style |-> "slash", lead |-> TRUE,
     segs |-> << <<"teams", "T1">>, <<"channels", "">> >>]
\* /chats/c1/messages
ChatSub ==
    [style |-> "slash", lead |-> TRUE,
     segs |-> << <<"chats", "c1">>, <<"messages", "">> >>]

TeamsResources == {TeamsSub, BareTeamsSub}
OtherResources == {ChannelsSub, ChatSub, EventRes, ParenRes("M1")}
SubResources == TeamsResources \cup OtherResources

ChangeTypeLists ==
    { <<"created">>, <<"created", "updated">>, <<"updated", "created">>, <<>> }

ValidationUrl == "https://relay/graph/validate"
LifecycleUrls == {None, "", ValidationUrl}

\* requested expirations, as seconds from the time of the call
Horizons == {0 - 60, 1800, 3600, 3601, 259200}

\* utils/graph_subscriptions.py called on its own
NormalizeCall == "normalize_graph_subscription"

Normalized(result, resource, change_types, lifecycle, has, expiration) ==
    /\ request' = [endpoint |-> NormalizeCall, resource |-> resource,
                   change_types |-> change_types, lifecycle |-> lifecycle,
                   has |-> has, expiration |-> expiration]
    /\ response' = result
    /\ UNCHANGED <<now, recent_messages, reactions, pages, log, body_read>>
    /\ UNCHANGED mvars

Normalize(resource, change_types, lifecycle, has, expiration) ==
    Normalized(normalize_graph_subscription(resource, change_types, ValidationUrl,
                                            lifecycle, has, expiration, now),
               resource, change_types, lifecycle, has, expiration)

NormalizeAny ==
    \E r \in SubResources, c \in ChangeTypeLists, l \in LifecycleUrls :
        \/ Normalize(r, c, l, FALSE, UtcNow(now))
        \/ \E h \in Horizons, tz \in Zones :
               Normalize(r, c, l, TRUE, AtInstant(now + h, tz))

SpecNormalize == Init /\ [][NormalizeAny]_vars

(***************************************************************************)
(* Graph's side of the subscription calls.  ok: Graph answers the call     *)
(* (FALSE: HTTP error, timeout, token failure).  A result carries the      *)
(* subscriptions after the call, whether the call raised, and the          *)
(* expirationDateTime that was sent.                                       *)
(***************************************************************************)
NoStamp == [wall |-> 0, parts |-> <<"-">>]

Called(subs, raised, sent) == [subs |-> subs, raised |-> raised, sent |-> sent]

\* the id Graph gives the next subscription: one it never gave before
FreeId(subs) == CHOOSE id \in SubIds : subs[id].state = "absent"

\* POST /subscriptions
Posted(subs, payload, ok) ==
    IF ok /\ parse_expiration_datetime(payload.expirationDateTime).ok
    THEN Called([subs EXCEPT ![FreeId(subs)] =
                    [state |-> "live", resource |-> payload.resource,
                     expires |-> Instant(parse_expiration_datetime(
                                             payload.expirationDateTime).value)]],
                FALSE, payload.expirationDateTime)
    ELSE Called(subs, TRUE, payload.expirationDateTime)

\* PATCH /subscriptions/{id}
Patched(subs, id, stamp, ok) ==
    IF ok /\ subs[id].state = "live" /\ parse_expiration_datetime(stamp).ok
    THEN Called([subs EXCEPT ![id].expires =
                    Instant(parse_expiration_datetime(stamp).value)],
                FALSE, stamp)
    ELSE Called(subs, TRUE, stamp)

\* GET /subscriptions: what Graph lists of subscription id, rendered as the
\* answer's item says: "full", or without an id, without an expiration or
\* with an expiration that is no timestamp
Listed(subs, id, render) ==
    [id |-> IF render = "no_id" THEN None ELSE id,
     resource |-> subs[id].resource,
     expirationDateTime |->
         CASE render = "no_expiration" -> NoStamp
           [] render = "garbage" -> [wall |-> subs[id].expires, parts |-> <<"?">>]
           [] OTHER -> [wall |-> subs[id].expires, parts |-> <<"Z">>]]

Renders == {"full", "no_id", "no_expiration", "garbage"}

\* the live subscriptions in the order of the listing
LiveIds(subs) ==
    (IF subs["S1"].state = "live" THEN <<"S1">> ELSE <<>>)
    \o (IF subs["S2"].state = "live" THEN <<"S2">> ELSE <<>>)

(***************************************************************************)
(* services/graph_service.py: create_subscription, renew_subscription.     *)
(***************************************************************************)
GraphCreate(subs, normalized, ok) ==
    IF normalized.error # None
    THEN [subs |-> subs, raised |-> TRUE, sent |-> NoStamp, error |-> normalized.error,
          payload |-> normalized.payload]
    ELSE [subs |-> Posted(subs, normalized.payload, ok).subs,
          raised |-> Posted(subs, normalized.payload, ok).raised,
          sent |-> normalized.payload.expirationDateTime,
          error |-> "Exception",
          payload |-> normalized.payload]

\* lines 212-235
create_subscription(subs, resource, change_types, notification_url, expiration, lifecycle, t, ok) ==
    GraphCreate(subs,
                normalize_graph_subscription(resource, change_types,
                                             notification_url, lifecycle,
                                             TRUE, expiration, t),
                ok)

\* lines 374-385, for an expiration_datetime that is not None
renew_subscription(subs, id, expiration, ok) ==
    Patched(subs, id, FormatExpiration(expiration), ok)

(***************************************************************************)
(* routes/subscription.py: the management routes.  A timedelta is its      *)
(* seconds; expiration_days comes as the timedelta it stands for.  A       *)
(* result is the subscriptions after, the status of the response and one   *)
(* log entry per subscription dealt with: the call's outcome and the       *)
(* expirationDateTime sent to Graph.                                       *)
(***************************************************************************)
other_max_expiration == 259200   \* timedelta(days=3)
min_expiration == 1830           \* timedelta(minutes=30, seconds=30)
renewal_threshold == 600         \* timedelta(minutes=10)

SubEntry(id, resource, tag, sent) ==
    [m |-> id, resource |-> resource, tag |-> tag, sent |-> sent]

Managing(subs, status, lg) == [subs |-> subs, status |-> status, log |-> lg]

\* lines 109-119
CreateExpiration(lifetime, t) ==
    IF t + lifetime < t + min_expiration THEN t + min_expiration ELSE t + lifetime

\* lines 146-157 with the test on the resource as the request gives it
CreateLifecycleAsGiven(resource, expires, t) ==
    IF is_teams_messages(resource)
    THEN ValidationUrl
    ELSE IF expires > t + 3600 THEN ValidationUrl ELSE None

\* lines 146-157
CreateLifecycle(resource, expires, t) ==
    IF is_teams_messages(WithLeadingSlash(resource))
    THEN ValidationUrl
    ELSE IF expires > t + 3600 THEN ValidationUrl ELSE None

\* lines 173-204: the subscription is returned, or HTTPException 400 / 500
\* what a creation call leaves in the log: the outcome, and the JSON body
\* graph_service.create_subscription had for POST /subscriptions
Creation(g, resource) ==
    [m |-> "-", resource |-> WithLeadingSlash(resource),
     tag |-> IF g.raised THEN "create_failed" ELSE "created",
     sent |-> g.sent, payload |-> g.payload]

AfterGraphCreate(g, resource) ==
    IF ~g.raised
    THEN Managing(g.subs, 200, <<Creation(g, resource)>>)
    ELSE Managing(g.subs, IF g.error = "ValueError" THEN 400 ELSE 500,
                  <<Creation(g, resource)>>)

\* POST /subscription/create, lines 108-204
route_create_subscription(subs, resource, change_types, lifetime, t, ok) ==
    AfterGraphCreate(
        create_subscription(subs, resource, change_types, ValidationUrl,
                            AtInstant(CreateExpiration(lifetime, t), "+00:00"),
                            CreateLifecycle(resource, CreateExpiration(lifetime, t), t),
                            t, ok),
        resource)

\* what a renewal call leaves in the log
Renewal(g, id, resource) ==
    SubEntry(id, resource, IF g.raised THEN "renew_failed" ELSE "renewed", g.sent)

AfterGraphRenew(g, id, resource) ==
    Managing(g.subs, IF g.raised THEN 500 ELSE 200, <<Renewal(g, id, resource)>>)

\* POST /subscription/renew/{id}, lines 222-234
route_renew_subscription(subs, id, lifetime, t, ok) ==
    AfterGraphRenew(renew_subscription(subs, id, AtInstant(t + lifetime, "+00:00"), ok),
                    id, subs[id].resource)

\* lines 275-283: for sub in subscriptions; g is the renewal of the first
RECURSIVE RenewEach(_, _, _, _, _)
AfterRenewed(g, lg, items, oks, expiration) ==
    RenewEach(g.subs, Append(lg, Renewal(g, Head(items).id, Head(items).resource)),
              Tail(items), Tail(oks), expiration)

RenewEach(subs, lg, items, oks, expiration) ==
    IF items = <<>>
    THEN Managing(subs, 200, lg)
    ELSE IF ~Truthy(Head(items).id)
    THEN RenewEach(subs, lg, Tail(items), Tail(oks), expiration)
    ELSE AfterRenewed(renew_subscription(subs, Head(items).id, expiration, Head(oks)),
                      lg, items, oks, expiration)

\* POST /subscription/renew-all, lines 268-294; listing: what
\* list_subscriptions returned, list_ok: whether it returned
renew_all_subscriptions(subs, lifetime, t, list_ok, listing, oks) ==
    IF ~list_ok
    THEN Managing(subs, 500, <<>>)
    ELSE RenewEach(subs, <<>>, listing, oks, AtInstant(t + lifetime, "+00:00"))

(***************************************************************************)
(* routes/subscription.py: check_and_renew_subscriptions.  listed: "ok",   *)
(* "fail" (list_subscriptions raised) or "broken" (it returned something   *)
(* the loop cannot walk, so the loop raises).  A result is the             *)
(* subscriptions after, one log entry per item, and whether the function   *)
(* raised.                                                                 *)
(***************************************************************************)
teams_max_expiration == 3600     \* timedelta(hours=1)

Checked(subs, lg, raised) == [subs |-> subs, log |-> lg, raised |-> raised]

Skipped(item) ==
    SubEntry(IF Truthy(item.id) THEN item.id ELSE "unknown", item.resource,
             "skipped", NoStamp)

\* a variant of NeedsRenewal that renews whatever ends within the hour
NeedsRenewalEarly(expires, t) == expires - t <= teams_max_expiration

\* line 364
NeedsRenewal(expires, t) == expires - t <= renewal_threshold

\* lines 368-374
NewExpiration(resource, t) ==
    IF is_teams_messages(resource)
    THEN AtInstant(t + teams_max_expiration, "+00:00")
    ELSE AtInstant(t + other_max_expiration, "+00:00")

\* lines 342-385: the body of the loop; the entry of one item
RECURSIVE CheckEach(_, _, _, _, _)
\* a variant of AfterChecked that leaves the loop at a renewal that raised
AfterCheckedOrRaise(g, lg, items, oks, t) ==
    IF g.raised
    THEN Checked(g.subs, Append(lg, Renewal(g, Head(items).id, Head(items).resource)),
                 TRUE)
    ELSE CheckEach(g.subs,
                   Append(lg, Renewal(g, Head(items).id, Head(items).resource)),
                   Tail(items), Tail(oks), t)

\* lines 376-382: the renewal and its except clause; g is the renewal
AfterChecked(g, lg, items, oks, t) ==
    CheckEach(g.subs, Append(lg, Renewal(g, Head(items).id, Head(items).resource)),
              Tail(items), Tail(oks), t)

IsDue(item, t) ==
    /\ Truthy(item.id)
    /\ item.expirationDateTime # NoStamp
    /\ parse_expiration_datetime(item.expirationDateTime).ok
    /\ NeedsRenewal(Instant(parse_expiration_datetime(item.expirationDateTime).value), t)

CheckEach(subs, lg, items, oks, t) ==
    IF items = <<>>
    THEN Checked(subs, lg, FALSE)
    ELSE IF ~IsDue(Head(items), t)
    THEN CheckEach(subs, Append(lg, Skipped(Head(items))), Tail(items), Tail(oks), t)
    ELSE AfterChecked(renew_subscription(subs, Head(items).id,
                                         NewExpiration(Head(items).resource, t),
                                         Head(oks)),
                      lg, items, oks, t)

\* lines 316-394
check_and_renew_subscriptions(subs, t, listed, listing, oks) ==
    CASE listed = "fail" -> Checked(subs, <<>>, FALSE)
      [] listed = "broken" -> Checked(subs, <<>>, TRUE)
      [] OTHER -> CheckEach(subs, <<>>, listing, oks, t)

\* the answers of Graph to one listing: the items and, for each, whether
\* its renewal will be answered
RECURSIVE ListingsOf(_, _, _)
ListingsOf(subs, ids, renders) ==
    IF ids = <<>> THEN {<<>>}
    ELSE {<<Listed(subs, Head(ids), r)>> \o rest :
              r \in renders, rest \in ListingsOf(subs, Tail(ids), renders)}

RECURSIVE OksOfLen(_, _)
OksOfLen(n, oks) ==
    IF n = 0 THEN {<<>>}
    ELSE {<<ok>> \o rest : ok \in oks, rest \in OksOfLen(n - 1, oks)}

(***************************************************************************)
(* routes/subscription.py: the renewal monitor.  A task of                 *)
(* monitor_subscriptions() is "created" (not yet run), "sleeping" (line    *)
(* 410), in "backoff" (the sleep of line 429) or "done"; cancel: cancel()  *)
(* was called on it and it has not run since.  The handlers of             *)
(* /monitor/start and /monitor/stop run up to their `await _renewal_task`  *)
(* and resume when that task is done.                                      *)
(***************************************************************************)
StartRoute == "/subscription/monitor/start"
StopRoute == "/subscription/monitor/stop"
MonitorRun == "monitor_subscriptions"

Done(tk, i) == tk[i].pc = "done"

\* line 453: _renewal_running and _renewal_task and not _renewal_task.done()
MonitorAlive(mon, tk) == mon.running /\ mon.task # 0 /\ ~Done(tk, mon.task)

\* lines 462-465
IntervalOf(check_interval) == IF check_interval > 0 THEN check_interval ELSE 300

\* the tasks asyncio.create_task can return: not alive and not referred to
FreeTasks(mon, tk, aw) ==
    {i \in TaskIds : /\ tk[i].pc \in {"none", "done"}
                     /\ mon.task # i
                     /\ \A k \in 1..Len(aw) : aw[k].task # i}
NewTask(mon, tk, aw) == CHOOSE i \in FreeTasks(mon, tk, aw) : TRUE

Suspended(handler, i) == [handler |-> handler, task |-> i]
Without(aw, k) == SubSeq(aw, 1, k - 1) \o SubSeq(aw, k + 1, Len(aw))

\* the state after a step of a monitor route that answered with status
MonitorStep(endpoint, input, status, mon, tk, aw) ==
    /\ request' = [endpoint |-> endpoint, input |-> input]
    /\ response' = [status |-> status, body |-> <<>>]
    /\ monitor' = mon
    /\ tasks' = tk
    /\ awaiting' = aw
    /\ log' = <<>>
    /\ UNCHANGED <<now, recent_messages, reactions, pages, body_read, subscriptions,
                   token_cache>>

\* line 476: _renewal_task = asyncio.create_task(monitor_subscriptions())
CreateTask(endpoint, input, mon, i, aw) ==
    MonitorStep(endpoint, input, "started", [mon EXCEPT !.task = i],
                [tasks EXCEPT ![i] = [pc |-> "created", cancel |-> FALSE, wake |-> 0]],
                aw)

\* POST /subscription/monitor/start, lines 451-476 up to the first await
start_renewal_monitor(check_interval) ==
    IF MonitorAlive(monitor, tasks)
    THEN MonitorStep(StartRoute, check_interval, "already_running",
                     monitor, tasks, awaiting)
    ELSE IF monitor.task # 0 /\ ~Done(tasks, monitor.task)
    THEN /\ Len(awaiting) < MaxTasks
         /\ MonitorStep(StartRoute, check_interval, "awaiting",
                        [monitor EXCEPT !.interval = IntervalOf(check_interval)],
                        [tasks EXCEPT ![monitor.task].cancel = TRUE],
                        Append(awaiting, Suspended("start", monitor.task)))
    ELSE /\ FreeTasks(monitor, tasks, awaiting) # {}
         /\ CreateTask(StartRoute, check_interval,
                       [monitor EXCEPT !.interval = IntervalOf(check_interval)],
                       NewTask(monitor, tasks, awaiting), awaiting)

\* lines 471-485: the awaited task is done, the handler goes on
StartResumes ==
    \E k \in 1..Len(awaiting) :
        /\ awaiting[k].handler = "start"
        /\ Done(tasks, awaiting[k].task)
        /\ FreeTasks(monitor, tasks, awaiting) # {}
        /\ CreateTask(StartRoute, 0, monitor, NewTask(monitor, tasks, awaiting),
                      Without(awaiting, k))

\* POST /subscription/monitor/stop, lines 498-511 up to the await
stop_renewal_monitor ==
    IF ~monitor.running \/ monitor.task = 0
    THEN MonitorStep(StopRoute, 0, "not_running", monitor, tasks, awaiting)
    ELSE IF ~Done(tasks, monitor.task)
    THEN /\ Len(awaiting) < MaxTasks
         /\ MonitorStep(StopRoute, 0, "awaiting",
                        [monitor EXCEPT !.running = FALSE],
                        [tasks EXCEPT ![monitor.task].cancel = TRUE],
                        Append(awaiting, Suspended("stop", monitor.task)))
    ELSE MonitorStep(StopRoute, 0, "stopped",
                     [monitor EXCEPT !.running = FALSE, !.task = 0],
                     tasks, awaiting)

\* lines 512-522: the awaited task is done, the handler goes on
StopResumes ==
    \E k \in 1..Len(awaiting) :
        /\ awaiting[k].handler = "stop"
        /\ Done(tasks, awaiting[k].task)
        /\ MonitorStep(StopRoute, 0, "stopped", [monitor EXCEPT !.task = 0],
                       tasks, Without(awaiting, k))

\* the state after a step of task i that left the monitor's globals as mon
\* and the task as task
TaskStep(i, mon, task) ==
    /\ monitor' = mon
    /\ tasks' = [tasks EXCEPT ![i] = task]
    /\ request' = [endpoint |-> MonitorRun, input |-> <<>>, listed |-> "-"]
    /\ UNCHANGED <<now, recent_messages, reactions, pages, response, log,
                   body_read, subscriptions, awaiting, token_cache>>

Sleeping(pc, t) == [pc |-> pc, cancel |-> FALSE, wake |-> t]
Finished == [pc |-> "done", cancel |-> FALSE, wake |-> 0]

\* lines 403-410: the task runs for the first time, or was cancelled before
MonitorBegins ==
    \E i \in TaskIds :
        /\ tasks[i].pc = "created"
        /\ IF tasks[i].cancel
           THEN TaskStep(i, monitor, Finished)
           ELSE TaskStep(i, [monitor EXCEPT !.running = TRUE],
                         Sleeping("sleeping", now + monitor.interval))

\* lines 423-432: CancelledError at the sleep of line 410 ends the loop and
\* clears the flag; at the sleep of line 429 it leaves the coroutine at once
MonitorCancelled ==
    \E i \in TaskIds :
        /\ tasks[i].pc \in {"sleeping", "backoff"}
        /\ tasks[i].cancel
        /\ IF tasks[i].pc = "sleeping"
           THEN TaskStep(i, [monitor EXCEPT !.running = FALSE], Finished)
           ELSE TaskStep(i, monitor, Finished)

\* the state after the tick of task i that ended as r
Ticked(r, i, listed, listing) ==
    /\ subscriptions' = r.subs
    /\ log' = r.log
    /\ monitor' = [monitor EXCEPT !.last_check = now]
    /\ tasks' = [tasks EXCEPT ![i] =
                     Sleeping(IF r.raised THEN "backoff" ELSE "sleeping",
                              now + monitor.interval)]
    /\ request' = [endpoint |-> MonitorRun, input |-> listing, listed |-> listed]
    /\ UNCHANGED <<now, recent_messages, reactions, pages, response, body_read,
                   awaiting, token_cache>>

\* lines 408-429: the sleep of line 410 is over; one tick, or the break of
\* line 413
MonitorWakes(listeds, renders, answers) ==
    \E i \in TaskIds :
        /\ tasks[i].pc = "sleeping"
        /\ ~tasks[i].cancel
        /\ tasks[i].wake <= now
        /\ IF ~monitor.running
           THEN TaskStep(i, monitor, Finished)
           ELSE \E listed \in listeds :
                    \E listing \in IF listed = "ok"
                                    THEN ListingsOf(subscriptions,
                                                    LiveIds(subscriptions), renders)
                                    ELSE {<<>>} :
                        \E oks \in OksOfLen(Len(listing), answers) :
                            Ticked(check_and_renew_subscriptions(
                                       subscriptions, now, listed, listing, oks),
                                   i, listed, listing)

\* lines 429-432 and 408: the sleep of line 429 is over
MonitorRecovers ==
    \E i \in TaskIds :
        /\ tasks[i].pc = "backoff"
        /\ ~tasks[i].cancel
        /\ tasks[i].wake <= now
        /\ IF monitor.running
           THEN TaskStep(i, monitor, Sleeping("sleeping", now + monitor.interval))
           ELSE TaskStep(i, monitor, Finished)

(***************************************************************************)
(* Time.  The event loop runs what is ready before it waits, so the clock  *)
(* goes on only when no task and no handler can take a step; it then goes  *)
(* to the next instant at which a sleep ends or a subscription expires.    *)
(* Graph drops a subscription at its expiration.                           *)
(***************************************************************************)
MaxClock == 1830    \* the last instant the clock goes to

LoopIdle ==
    /\ \A i \in TaskIds :
           /\ tasks[i].pc # "created"
           /\ tasks[i].pc \in {"sleeping", "backoff"}
              => (~tasks[i].cancel /\ tasks[i].wake > now)
    /\ \A k \in 1..Len(awaiting) : ~Done(tasks, awaiting[k].task)

Instants ==
    {tasks[i].wake : i \in {j \in TaskIds : tasks[j].pc \in {"sleeping", "backoff"}}}
    \cup {subscriptions[id].expires :
              id \in {d \in SubIds : subscriptions[d].state = "live"}}

Earliest(ts) == CHOOSE t \in ts : \A u \in ts : t <= u

Expired(subs, t) ==
    [id \in SubIds |->
        IF subs[id].state = "live" /\ subs[id].expires <= t
        THEN [subs[id] EXCEPT !.state = "expired"]
        ELSE subs[id]]

ClockAt(t) ==
    /\ t <= MaxClock
    /\ now' = t
    /\ subscriptions' = Expired(subscriptions, t)
    /\ UNCHANGED <<recent_messages, reactions, pages, request, response, log,
                   body_read, monitor, tasks, awaiting, token_cache>>

Advance ==
    /\ LoopIdle
    /\ {t \in Instants : t > now} # {}
    /\ ClockAt(Earliest({t \in Instants : t > now}))

(***************************************************************************)
(* The subscription routes and the monitor as actions.                     *)
(***************************************************************************)
CreateRoute == "/subscription/create"
RenewRoute == "/subscription/renew"
RenewAllRoute == "/subscription/renew-all"

\* the state after a management request that ended as r
Managed(r, endpoint, input) ==
    /\ subscriptions' = r.subs
    /\ request' = [endpoint |-> endpoint, input |-> input]
    /\ response' = [status |-> r.status, body |-> <<>>]
    /\ log' = r.log
    /\ UNCHANGED <<now, recent_messages, reactions, pages, body_read, monitor,
                   tasks, awaiting, token_cache>>

\* expiration_days of 0, 0.04, 3 and 10 (create) and of 1, 3 and 10 (renew)
CreateLifetimes == {0, 3456, 259200, 864000}
RenewLifetimes == {86400, 259200, 864000}
DefaultChangeTypes == <<"created", "updated">>

CreateSubscription(resources, lifetimes, answers) ==
    /\ \E id \in SubIds : subscriptions[id].state = "absent"
    /\ \E resource \in resources, lifetime \in lifetimes, ok \in answers :
           Managed(route_create_subscription(subscriptions, resource,
                                             DefaultChangeTypes, lifetime, now, ok),
                   CreateRoute, [resource |-> resource, lifetime |-> lifetime])

CreateAny == CreateSubscription({TeamsSub, BareTeamsSub, ChatSub}, CreateLifetimes, BOOLEAN)

RenewOne ==
    \E id \in SubIds, lifetime \in RenewLifetimes, ok \in BOOLEAN :
        Managed(route_renew_subscription(subscriptions, id, lifetime, now, ok),
                RenewRoute, [id |-> id, lifetime |-> lifetime])

RenewAll ==
    \E lifetime \in RenewLifetimes, list_ok \in BOOLEAN :
        \E listing \in ListingsOf(subscriptions, LiveIds(subscriptions),
                                   {"full", "no_id"}) :
            \E oks \in OksOfLen(Len(listing), BOOLEAN) :
                Managed(renew_all_subscriptions(subscriptions, lifetime, now,
                                                list_ok, listing, oks),
                        RenewAllRoute, [lifetime |-> lifetime, listing |-> listing])

\* POST /subscription/create with a body that names its change_types
CreateTyped ==
    /\ \E id \in SubIds : subscriptions[id].state = "absent"
    /\ \E resource \in {TeamsSub, BareTeamsSub, ChatSub}, change_types \in ChangeTypeLists :
           \E lifetime \in CreateLifetimes, ok \in BOOLEAN :
               Managed(route_create_subscription(subscriptions, resource,
                                                 change_types, lifetime, now, ok),
                       CreateRoute,
                       [resource |-> resource, change_types |-> change_types,
                        lifetime |-> lifetime])

NextCreate == CreateTyped \/ RenewOne
SpecCreate == Init /\ [][NextCreate]_vars

NextManage == CreateAny \/ RenewOne \/ RenewAll
SpecManage == Init /\ [][NextManage]_vars

\* check_interval of the start request: 0 (the default is taken) or 1200
CheckIntervals == {0, 1200}

\* a Teams-message and a chat subscription of the shortest lifetime
CreateTeams == CreateSubscription({TeamsSub}, {0}, {TRUE})
CreateChat == CreateSubscription({ChatSub}, {0}, {TRUE})

StartMonitor == \E c \in CheckIntervals : start_renewal_monitor(c)
StopMonitor == stop_renewal_monitor

MonitorTicks == MonitorWakes({"ok", "fail", "broken"}, Renders, BOOLEAN)

\* the monitor started and never stopped, with Graph failing at will
NextMonitor ==
    \/ CreateTeams \/ CreateChat
    \/ StartMonitor \/ MonitorBegins \/ MonitorTicks \/ MonitorRecovers
    \/ Advance
SpecMonitor == Init /\ [][NextMonitor]_vars

\* the monitor started and stopped at will, with nothing to renew
MonitorIdles == MonitorWakes({"ok", "broken"}, Renders, BOOLEAN)

NextStartStop ==
    \/ StartMonitor \/ StartResumes \/ StopMonitor \/ StopResumes
    \/ MonitorBegins \/ MonitorCancelled \/ MonitorIdles \/ MonitorRecovers
    \/ Advance
SpecStartStop == Init /\ [][NextStartStop]_vars

\* the monitor started and never stopped, with every Graph call answered
MonitorTicksOk == MonitorWakes({"ok"}, {"full"}, {TRUE})

NextRenewal ==
    CreateTeams \/ CreateChat \/ StartMonitor \/ MonitorBegins \/ MonitorTicksOk
    \/ Advance
SpecRenewal == Init /\ [][NextRenewal]_vars

\* another client of the same application registration creates a
\* subscription at Graph, which keeps the resource string as it was given:
\* GET /subscriptions lists it to the monitor
GraphDirect == "POST https://graph.microsoft.com/v1.0/subscriptions"

CreateElsewhere ==
    /\ \E id \in SubIds : subscriptions[id].state = "absent"
    /\ \E resource \in {TeamsSub, BareTeamsSub} :
           /\ subscriptions' = [subscriptions EXCEPT ![FreeId(subscriptions)] =
                                    [state |-> "live", resource |-> resource,
                                     expires |-> now + min_expiration]]
           /\ request' = [endpoint |-> GraphDirect, input |-> resource]
    /\ UNCHANGED <<now, recent_messages, reactions, pages, response, log, body_read,
                   monitor, tasks, awaiting, token_cache>>

\* the monitor over subscriptions of the application that other clients made
NextListed ==
    CreateElsewhere \/ StartMonitor \/ MonitorBegins \/ MonitorTicksOk \/ Advance
SpecListed == Init /\ [][NextListed]_vars

(***************************************************************************)
(* services/graph_service.py: the token cache and _make_request.  An       *)
(* operation's events list what it did outside the process, in order: an   *)
(* acquisition at the identity provider that "acquired" or                 *)
(* "acquire_failed", a "request" handed to the HTTP client, a "sleep:n"     *)
(* of n tenths of a second; "cached" is a call of _get_access_token that   *)
(* found the cached token valid.                                           *)
(***************************************************************************)
TOKEN_MARGIN == 300      \* timedelta(minutes=5)

\* lines 65-67
TokenValid(tok, t) ==
    /\ Truthy(tok.access_token)
    /\ tok.has_expiry
    /\ t < tok.token_expires_at - TOKEN_MARGIN

\* what acquire_token_for_client answers: a token with its expires_in, or
\* a result without "access_token"
IdpAnswers ==
    {[ok |-> FALSE, expires_in |-> 0],
     [ok |-> TRUE, expires_in |-> 3600],
     [ok |-> TRUE, expires_in |-> 200]}

\* the answers of the identity provider to the acquisitions of one
\* operation: the first, and every later one
IdpPlans == [first : IdpAnswers, rest : IdpAnswers]
IdpAt(plan, events) ==
    IF \A k \in 1..Len(events) : events[k] \notin {"acquired", "acquire_failed"}
    THEN plan.first
    ELSE plan.rest

\* the state of an operation: the cache, the clock, whether the last call
\* raised and with what, and the events so far
Op(tok, t, error, events) ==
    [token |-> tok, now |-> t, raised |-> error # None, error |-> error,
     events |-> events]

\* result["access_token"]: every acquisition hands out a token of its own,
\* named here by its instant and its lifetime
TokenOf(t, expires_in) == "tok@" \o ToString(t) \o "+" \o ToString(expires_in)

\* a variant of Acquire that forgets the cached token when the acquisition
\* fails, and keeps the expiry
AcquireOrForget(op, idp) ==
    IF ~idp.ok
    THEN Op([op.token EXCEPT !.access_token = None], op.now, "token",
            Append(op.events, "acquire_failed"))
    ELSE Op([access_token |-> TokenOf(op.now, idp.expires_in), has_expiry |-> TRUE,
             token_expires_at |-> op.now + idp.expires_in],
            op.now, None, Append(op.events, "acquired"))

\* lines 69-83
Acquire(op, idp) ==
    IF ~idp.ok
    THEN Op(op.token, op.now, "token", Append(op.events, "acquire_failed"))
    ELSE Op([access_token |-> TokenOf(op.now, idp.expires_in), has_expiry |-> TRUE,
             token_expires_at |-> op.now + idp.expires_in],
            op.now, None, Append(op.events, "acquired"))

\* lines 55-83, called in the state op
get_access_token(op, plan) ==
    IF TokenValid(op.token, op.now)
    THEN Op(op.token, op.now, None, Append(op.events, "cached"))
    ELSE Acquire(op, IdpAt(plan, op.events))

\* what Graph answers to a request: a status and a body that is JSON, an
\* error JSON that names a validation timeout, or empty; status 0 stands
\* for a request that could not be sent
GraphAnswers ==
    {[status |-> 200, body |-> "json"],
     [status |-> 204, body |-> ""],
     [status |-> 404, body |-> "json"],
     [status |-> 400, body |-> "timeout"],
     [status |-> 0, body |-> ""]}

\* lines 123-183: request, raise_for_status, json
ErrorOf(answer) ==
    CASE answer.status = 0 -> "network"
      [] answer.status \in 200..299 -> IF answer.body = "" THEN "json" ELSE None
      [] answer.body = "timeout" -> "timeout"
      [] OTHER -> "graph"

\* lines 109-131 once the token call returned as g
Requested(g, answer) ==
    IF g.raised
    THEN g
    ELSE Op(g.token, g.now, ErrorOf(answer), Append(g.events, "request"))

\* a variant of _make_request that sends with whatever token is cached
make_request_unchecked(op, plan, answer) ==
    IF Truthy(op.token.access_token)
    THEN Requested(op, answer)
    ELSE Requested(get_access_token(op, plan), answer)

\* lines 86-183
make_request(op, plan, answer) == Requested(get_access_token(op, plan), answer)

(***************************************************************************)
(* The operations of the Graph client that the claims about tokens,        *)
(* retries and deletion are about.                                         *)
(***************************************************************************)
\* an except clause that logs and goes on
Swallowed(op) == Op(op.token, op.now, None, op.events)

\* graph_service.py:387-394
delete_subscription(op, plan, answer) == make_request(op, plan, answer)

\* routes/subscription.py:237-254
route_delete_subscription(op, plan, answer) == delete_subscription(op, plan, answer)

\* routes/subscription.py:81-95
NeedsWarmup(tok, t) ==
    \/ ~Truthy(tok.access_token)
    \/ ~tok.has_expiry
    \/ tok.token_expires_at - t < TOKEN_MARGIN

\* routes/subscription.py:77-105, AUTO_WARMUP_BEFORE_SUBSCRIPTION unset
WarmedUp(op, plan, pre_warmup) ==
    IF NeedsWarmup(op.token, op.now) \/ pre_warmup
    THEN Swallowed(get_access_token(op, plan))
    ELSE op

\* routes/subscription.py:77-204: the warm-up and the creation, for a
\* payload the normalizer accepts
create_subscription_warm(op, plan, answer, pre_warmup) ==
    make_request(WarmedUp(op, plan, pre_warmup), plan, answer)

RECURSIVE Pow(_, _)
Pow(b, e) == IF e = 0 THEN 1 ELSE b * Pow(b, e - 1)

\* lines 277-285; initial_delay d and the delay are in tenths of a second
\* (a rapid delay is rounded down to a tenth)
RapidMode(d) == d < 10

\* a variant of DelayTenths with the growth and the cap of the rapid mode for
\* every initial_delay
DelayTenthsRapid(d, attempt) ==
    IF (d * Pow(3, attempt - 1)) \div Pow(2, attempt - 1) < 20
    THEN (d * Pow(3, attempt - 1)) \div Pow(2, attempt - 1)
    ELSE 20

DelayTenths(d, attempt) ==
    IF RapidMode(d)
    THEN IF (d * Pow(3, attempt - 1)) \div Pow(2, attempt - 1) < 20
         THEN (d * Pow(3, attempt - 1)) \div Pow(2, attempt - 1)
         ELSE 20
    ELSE IF d * Pow(2, attempt - 1) < 100
         THEN d * Pow(2, attempt - 1)
         ELSE 100

\* line 288: time.sleep(delay); the event names the delay in tenths
SleepEvent(tenths) == "sleep:" \o ToString(tenths)
Slept(op, tenths) ==
    Op(op.token, op.now + tenths \div 10, None, Append(op.events, SleepEvent(tenths)))

\* lines 290-304: the token before a retry
Refreshed(op, plan, d, attempt) ==
    IF DelayTenths(d, attempt) >= 10 \/ ~Truthy(op.token.access_token)
    THEN Swallowed(get_access_token(op, plan))
    ELSE op

\* lines 274-304
BeforeAttempt(op, plan, d, attempt) ==
    IF attempt > 0
    THEN Refreshed(Slept(op, DelayTenths(d, attempt)), plan, d, attempt)
    ELSE Swallowed(op)

\* a variant of IsValidationTimeout for which every failure is one
IsAnyFailure(error) == TRUE

\* lines 319-322, on the messages _make_request raises
IsValidationTimeout(error) == error = "timeout"

RECURSIVE Attempt(_, _, _, _, _, _)
\* lines 315-342: r is the attempt, answered or raised
AfterAttempt(r, plan, answers, attempt, max_retries, d) ==
    IF r.raised /\ IsValidationTimeout(r.error) /\ attempt < max_retries - 1
    THEN Attempt(r, plan, answers, attempt + 1, max_retries, d)
    ELSE r

\* lines 272-348: the loop from attempt on
Attempt(op, plan, answers, attempt, max_retries, d) ==
    IF attempt >= max_retries
    THEN Op(op.token, op.now, "exhausted", op.events)
    ELSE AfterAttempt(make_request(BeforeAttempt(op, plan, d, attempt), plan,
                                   answers[attempt + 1]),
                      plan, answers, attempt, max_retries, d)

\* graph_service.py:237-348
create_subscription_with_retry(op, plan, answers, max_retries, d) ==
    Attempt(op, plan, answers, 0, max_retries, d)

MakeRequestCall == "_make_request"
DeleteRoute == "/subscription/delete"
RetryCall == "create_subscription_with_retry"
MaxRetries == 3          \* the largest max_retries of a call
MaxGraphClock == 3700    \* the last instant an operation of the client ends at

\* the state after an operation of the client that ended as op
Operated(op, endpoint, input) ==
    /\ op.now <= MaxGraphClock
    /\ token_cache' = op.token
    /\ now' = op.now
    /\ request' = [endpoint |-> endpoint, input |-> input]
    /\ response' = [status |-> IF op.raised THEN op.error ELSE "returned",
                    body |-> <<>>]
    /\ log' = op.events
    /\ UNCHANGED <<recent_messages, reactions, pages, body_read, subscriptions,
                   monitor, tasks, awaiting>>

\* the state an operation of the client starts in
Starting == Op(token_cache, now, None, <<>>)

\* what the operation is given, kept for the record
Given(plan, answers, extra) ==
    [valid |-> TokenValid(token_cache, now), idp |-> plan, answers |-> answers,
     extra |-> extra]

\* the answers of Graph to the attempts of one creation: created, a
\* validation timeout, another error
RetryAnswers == {a \in GraphAnswers : a.status \in {200, 400, 404}}

RECURSIVE AnswersOfLen(_)
AnswersOfLen(n) ==
    IF n = 0 THEN {<<>>}
    ELSE {<<a>> \o rest : a \in RetryAnswers, rest \in AnswersOfLen(n - 1)}

\* the identity provider during one creation: up, down, down at first, or
\* handing out tokens that are stale at once
RetryPlans ==
    {plan \in IdpPlans : \/ plan.first = plan.rest
                         \/ (~plan.first.ok /\ plan.rest.expires_in = 3600)}

\* the instants Pass reaches from 0: a creation with retries, the one
\* operation that takes time, starts at one of them
RetryInstants == {0, 3299, 3600}

MakeRequest ==
    \E plan \in RetryPlans, answer \in GraphAnswers :
        Operated(make_request(Starting, plan, answer), MakeRequestCall,
                 Given(plan, <<answer>>, 0))

DeleteSubscription ==
    \E plan \in RetryPlans, answer \in GraphAnswers :
        Operated(route_delete_subscription(Starting, plan, answer), DeleteRoute,
                 Given(plan, <<answer>>, 0))

CreateWarm ==
    \E plan \in RetryPlans, answer \in GraphAnswers, pre_warmup \in BOOLEAN :
        Operated(create_subscription_warm(Starting, plan, answer, pre_warmup),
                 CreateRoute, Given(plan, <<answer>>, IF pre_warmup THEN 1 ELSE 0))

\* initial_delay in tenths of a second: 0.5 (rapid), 1.5 and 6
InitialDelays == {5, 15, 60}

CreateWithRetry ==
    /\ now \in RetryInstants
    /\ \E plan \in RetryPlans, max_retries \in 0..MaxRetries, d \in InitialDelays :
           \E answers \in AnswersOfLen(max_retries) :
               Operated(create_subscription_with_retry(Starting, plan, answers,
                                                       max_retries, d),
                        RetryCall, Given(plan, answers, d))

\* time goes by between two operations
Pass ==
    /\ \E seconds \in {3299, 3600} :
           /\ now + seconds <= MaxGraphClock
           /\ now' = now + seconds
    /\ UNCHANGED <<recent_messages, reactions, pages, request, response, log,
                   body_read, subscriptions, monitor, tasks, awaiting, token_cache>>

NextGraph == MakeRequest \/ DeleteSubscription \/ CreateWarm \/ CreateWithRetry \/ Pass
SpecGraph == Init /\ [][NextGraph]_vars

(***************************************************************************)
(* The process as main.py starts it: startup_event (main.py:96-114) warms  *)
(* the token and creates no task, and nothing else schedules               *)
(* poll_messages_for_reactions; the clock goes on between deliveries.      *)
(***************************************************************************)
MaxWaits == 12      \* poll intervals the clock goes on for, SpecService

Wait ==
    /\ now < MaxWaits * REACTION_POLL_INTERVAL
    /\ now' = now + REACTION_POLL_INTERVAL
    /\ UNCHANGED <<recent_messages, reactions, pages, request, response, log, body_read>>
    /\ UNCHANGED mvars

NextService == DeliverOne \/ Wait
SpecService == Init /\ [][NextService]_vars

\* a Teams user takes a reaction back: Graph no longer lists it on the message
RemoveAt(rs, i) == [j \in 1..(Len(rs) - 1) |-> IF j < i THEN rs[j] ELSE rs[j + 1]]

RemoveReaction ==
    /\ \E key \in Keys : \E i \in 1..Len(reactions[key]) :
           reactions' = [reactions EXCEPT ![key] = RemoveAt(@, i)]
    /\ UNCHANGED <<now, recent_messages, pages, request, response, log, body_read>>
    /\ UNCHANGED mvars

\* the poller run as a task for longer than the retention: a pass every
\* REACTION_POLL_INTERVAL seconds
MaxPasses == 11     \* passes of the poller, SpecRetention

PollPass ==
    /\ now < MaxPasses * REACTION_POLL_INTERVAL
    /\ \E envs \in EnvsOfLen(Len(recent_messages)) :
           Polled(PollMessages(recent_messages, pages, <<>>, recent_messages,
                               envs, now + REACTION_POLL_INTERVAL, reactions),
                  now + REACTION_POLL_INTERVAL)

\* one message: its 'created' notification, which may come again, and the
\* first reaction it gets
DeliverM1 ==
    Serve("/webhook/notification", <<>>,
          ValidBody(<<<<Change("created", None, SlashRes("M1")), EnvOk>>>>))

MarkM1 ==
    /\ reactions[KeyOf("M1")] = <<>>
    /\ \E r \in MarkerKinds :
           reactions' = [reactions EXCEPT ![KeyOf("M1")] = <<r>>]
    /\ UNCHANGED <<now, recent_messages, pages, request, response, log, body_read>>
    /\ UNCHANGED mvars

NextRetention == DeliverM1 \/ MarkM1 \/ PollPass
SpecRetention == Init /\ [][NextRetention]_vars

\* notifications for messages whose markers come and go
NextReacting == DeliverOne \/ AddMarker \/ RemoveReaction
SpecReacting == Init /\ [][NextReacting]_vars

(***************************************************************************)
(* Properties.                                                             *)
(***************************************************************************)
Range(s) == {s[i] : i \in 1..Len(s)}

\* a step taken by a request handler: neither the clock nor Graph moved
HandlerStep == now' = now /\ reactions' = reactions

\* the last request was a batch delivered to the notification handler
Delivered ==
    /\ request.endpoint = "/webhook/notification"
    /\ request.kind = "valid"
    /\ request.query = <<>>

\* the query carries a non-empty validationToken parameter
CarriesToken(query) == HasText(QueryGet(query, "validationToken"))

\* C1: when create_ticket has created the only ticket of a message id and is
\* called again with that id, the second call reports ValueError, sends no
\* page-creation request and leaves exactly one ticket for the id.
C1_SecondCallReportsDuplicate ==
    [][(/\ request.endpoint = StoreCall
        /\ log[1].tag = "created"
        /\ pages[request.teams_message_id] = 1
        /\ request'.endpoint = StoreCall
        /\ request'.teams_message_id = request.teams_message_id)
       => (/\ log'[1].tag = "ValueError"
           /\ Range(log'[1].calls) \cap {"pages", "pages!"} = {}
           /\ pages'[request.teams_message_id] = 1)]_vars

\* C2: in every reachable state the store holds at most one ticket per
\* Teams message id.
C2_AtMostOneTicketPerMessage == \A m \in Messages : pages[m] <= 1

\* C3: when a delivery has created the ticket of a message and another
\* delivery for the same message finds the approval marker of an allowed
\* approver, the other delivery resolves as a duplicate and creates nothing.
C3_OtherDeliveryIsDuplicate ==
    [][(HandlerStep /\ Delivered /\ Delivered')
       => \A i \in 1..Len(log), j \in 1..Len(log') :
              (/\ log[i].tag = "created"
               /\ pages[log[i].m] = 1
               /\ log'[j].m = log[i].m
               /\ log'[j].tag \in {"created", "duplicate", "create_failed"})
              => (log'[j].tag = "duplicate" /\ pages'[log[i].m] = 1)]_vars

\* C4: every request to /webhook/notification, /webhook/lifecycle or
\* /graph/validate is answered 200 when it is answered with the validation
\* token and 202 in every other case, whatever its body is and whichever
\* external call failed.
C4_AlwaysAcknowledged ==
    request.endpoint \in BodyEndpoints
    => (/\ response.status \in {200, 202}
        /\ response.status = 200 <=> ~body_read
        /\ response.status = 202 <=> response.body = <<"O", "K">>
        /\ ~CarriesToken(request.query) => response.status = 202)

\* a batch was acknowledged although ticket creation failed in it
C4_Witness ==
    /\ request.endpoint = "/graph/validate"
    /\ request.kind = "valid"
    /\ \E i \in 1..Len(log) : log[i].tag = "create_failed"
    /\ response.status = 202

\* C5: a request to /webhook/notification, /webhook/lifecycle or
\* /graph/validate that carries a non-empty validationToken is answered 200
\* with the decoded token without the body being read, without any external
\* call, without a ticket and with _recent_messages left as it was.
C5_ValidationShortCircuit ==
    [][(/\ HandlerStep
        /\ request'.endpoint \in BodyEndpoints
        /\ CarriesToken(request'.query))
       => (/\ response'.status = 200
           /\ response'.body \in
                  { QueryGet(request'.query, "validationToken"),
                    unquote_plus(QueryGet(request'.query, "validationToken")) }
           /\ ~body_read'
           /\ log' = <<>>
           /\ pages' = pages
           /\ recent_messages' = recent_messages)]_vars

\* C6: every validation endpoint answers a request that carries a validation
\* token with 200 and, as the whole body, the token decoded exactly once.
C6_TokenDecodedOnce ==
    (request.endpoint \in Endpoints /\ CarriesToken(request.query))
    => (/\ response.status = 200
        /\ response.body = QueryGet(request.query, "validationToken"))

\* C7: an item of a delivered batch whose clientState is present and is not
\* the configured secret is discarded without any external call.
C7_ForeignClientStateDiscarded ==
    (Delivered /\ Len(log) = Len(request.value))
    => \A i \in 1..Len(log) :
           (/\ request.value[i].clientState # None
            /\ request.value[i].clientState # webhook_client_state)
           => (log[i].tag = "bad_client_state" /\ log[i].calls = <<>>)

\* the message an item is about, "-" when the item is not processed
SubjectOf(change) ==
    IF /\ ~ClientStateRejected(change)
       /\ IsMessageResource(change.resource)
       /\ change.changeType \in {"created", "updated"}
       /\ extract_team_channel_from_resource(change.resource).ok
    THEN extract_team_channel_from_resource(change.resource).key[3]
    ELSE "-"

\* C8: every item of a delivered batch is handled exactly once and in array
\* order, also after an item that raised: the log has one entry per item, and
\* entry i is about the message of item i.
C8_EveryItemHandledInOrder ==
    Delivered
    => (/\ Len(log) = Len(request.value)
        /\ \A i \in 1..Len(log) : log[i].m = SubjectOf(request.value[i]))

\* an item raised and the item after it was handled all the same
C8_Witness ==
    /\ Delivered
    /\ Len(log) = 2
    /\ log[1].tag = "create_failed"
    /\ log[2].tag = "tracked"

Approved(key) ==
    /\ FirstTicketReaction(reactions[key]) # 0
    /\ is_user_allowed(ReactingUser(reactions[key][FirstTicketReaction(reactions[key])]))

\* C10: a message that is tracked and gets the approval marker of an allowed
\* approver eventually has exactly one ticket and is no longer tracked, also
\* when no further notification for it arrives.
C10_ApprovedMessageEventuallyTicketed ==
    (/\ DictHas(recent_messages, KeyOf("M1"))
     /\ Approved(KeyOf("M1"))
     /\ pages["M1"] = 0)
    ~> (pages["M1"] = 1 /\ ~DictHas(recent_messages, KeyOf("M1")))

\* C11: whenever a handler run or a poller pass creates a ticket for a
\* message, the approval marker it acted on (the first one of the message)
\* was put there by a user of the allowed list, compared in lower case after
\* trimming; a marker without a user identity never yields a ticket.
C11_TicketOnlyFromAllowedApprover ==
    [][\A m \in Messages :
           pages'[m] > pages[m]
           => (/\ FirstTicketReaction(reactions[KeyOf(m)]) # 0
               /\ LowerStrip(ReactingUser(
                      reactions[KeyOf(m)][FirstTicketReaction(reactions[KeyOf(m)])]))
                  \in allowed_users)]_vars

\* the poller met the marker of a user without identity and created nothing
C11_Witness ==
    /\ request.endpoint = PollerRun
    /\ \E i \in 1..Len(log) :
           /\ log[i].tag = "not_allowed"
           /\ pages[log[i].m] = 0
           /\ ReactingUser(reactions[KeyOf(log[i].m)][1]) = None

\* the last call was normalize_graph_subscription on a resource of rs
NormalizedOneOf(rs) == request.endpoint = NormalizeCall /\ request.resource \in rs

\* the instant a payload's expirationDateTime names, 0 - 1 when it names none
PayloadInstant(payload) ==
    IF parse_expiration_datetime(payload.expirationDateTime).ok
    THEN Instant(parse_expiration_datetime(payload.expirationDateTime).value)
    ELSE 0 - 1

\* C12: for a Teams-message resource, whatever the change types and the
\* requested expiration, normalize_graph_subscription raises ValueError
\* exactly when the lifecycle URL is None or empty, and otherwise returns a
\* payload with changeType 'created', an expiration no later than one hour
\* after the call, and a lifecycleNotificationUrl.
C12_TeamsPayloadNormalized ==
    NormalizedOneOf(TeamsResources)
    => (/\ response.error \in {None, "ValueError"}
        /\ response.error = "ValueError" <=> ~Truthy(request.lifecycle)
        /\ response.error = None
           => (/\ response.payload.changeType = <<"created">>
               /\ parse_expiration_datetime(response.payload.expirationDateTime).ok
               /\ PayloadInstant(response.payload) <= now + TEAMS_MAX_EXPIRATION
               /\ "lifecycleNotificationUrl" \in DOMAIN response.payload))

\* C13: for a resource that is not a Teams-message resource,
\* normalize_graph_subscription never raises, whatever the lifecycle URL,
\* emits the caller's change types unmodified and in their order, and
\* leaves the reading of a caller-supplied expiration as it was.
C13_OtherResourcesPassThrough ==
    NormalizedOneOf(OtherResources)
    => (/\ response.error = None
        /\ response.payload.changeType = Join(request.change_types)
        /\ ("lifecycleNotificationUrl" \in DOMAIN response.payload)
           <=> Truthy(request.lifecycle)
        /\ request.has
           => response.payload.expirationDateTime.wall = request.expiration.wall)

\* a chat-message subscription of three days without lifecycle URL
C13_Witness ==
    /\ NormalizedOneOf({ChatSub})
    /\ request.change_types = <<"updated", "created">>
    /\ request.lifecycle = None
    /\ request.has
    /\ Instant(request.expiration) = now + 259200
    /\ response.error = None
    /\ response.payload.changeType = <<"updated", ",", "created">>

\* C14: when normalize_graph_subscription returns a payload for a
\* caller-supplied expiration that it does not clamp (naive, UTC or with
\* another offset), the payload's expirationDateTime ends in 'Z', holds no
\* '+00:00', and parses back to the instant of the input.
C14_ExpirationRoundTrip ==
    (/\ request.endpoint = NormalizeCall
     /\ request.has
     /\ response.error = None
     /\ \/ request.resource \in OtherResources
        \/ Instant(request.expiration) - now <= TEAMS_MAX_EXPIRATION)
    => (/\ EndsWith(response.payload.expirationDateTime, "Z")
        /\ "+00:00" \notin Range(response.payload.expirationDateTime.parts)
        /\ parse_expiration_datetime(response.payload.expirationDateTime).ok
        /\ PayloadInstant(response.payload) = Instant(request.expiration))

\* the instant a timestamp string names, 0 - 1 when it names none
StampInstant(stamp) ==
    IF parse_expiration_datetime(stamp).ok
    THEN Instant(parse_expiration_datetime(stamp).value)
    ELSE 0 - 1

\* the log entries of calls that sent Graph an expiration for a resource
SentFor(entry, teams) ==
    /\ entry.tag \in {"created", "create_failed", "renewed", "renew_failed"}
    /\ entry.sent # NoStamp
    /\ is_teams_messages(entry.resource) = teams

\* C15: a manual renewal (renew/{id} or renew-all) never sends Graph, for a
\* Teams-message subscription, an expiration later than one hour after the
\* time of the renewal, whatever expiration_days is.
C15_ManualRenewalCappedForTeams ==
    request.endpoint \in {RenewRoute, RenewAllRoute}
    => \A i \in 1..Len(log) :
           SentFor(log[i], TRUE)
           => StampInstant(log[i].sent) <= now + TEAMS_MAX_EXPIRATION

\* C16: every creation and every renewal of a subscription for a resource
\* that is not a Teams-message resource sends Graph an expiration at most
\* three days after the time of the request, whatever expiration_days is.
C16_OtherExpirationWithinThreeDays ==
    request.endpoint \in {CreateRoute, RenewRoute, RenewAllRoute}
    => \A i \in 1..Len(log) :
           SentFor(log[i], FALSE)
           => StampInstant(log[i].sent) <= now + other_max_expiration

\* what the tick of the monitor did to item i of the listing it was given
Attempted(i) == log[i].tag \in {"renewed", "renew_failed"}

\* item i of the listing has an id and a timestamp that ends within ten
\* minutes of the tick
DueAtTick(i) ==
    /\ request.input[i].id # None
    /\ request.input[i].expirationDateTime.parts = <<"Z">>
    /\ request.input[i].expirationDateTime.wall - monitor.last_check <= 600

C18_NoExpiryWhileMonitored ==
    [][(monitor.running /\ monitor.last_check >= 0)
       => \A id \in SubIds :
              subscriptions[id].state = "live" => subscriptions'[id].state = "live"]_vars

\* task i is in the loop of the monitor, which nobody has stopped
Looping(i) ==
    /\ tasks[i].pc \in {"sleeping", "backoff"}
    /\ ~tasks[i].cancel
    /\ monitor.running

\* C19: while the Renewal Monitor is started and not stopped its loop never
\* ends: after each step the task is again waiting for its next tick, one
\* check interval ahead when the step was a tick, whether the listing
\* failed, a renewal failed or the tick raised; and a tick whose listing was
\* answered handles every listed subscription, also the ones that come after
\* a renewal that failed.
C19_MonitorSurvivesFailures ==
    [][\A i \in TaskIds :
           Looping(i)
           => /\ tasks'[i].pc \in {"sleeping", "backoff"}
              /\ monitor'.running
              /\ tasks'[i] # tasks[i] => tasks'[i].wake = now + monitor.interval
              /\ (tasks'[i] # tasks[i] /\ request'.listed = "ok")
                 => Len(log') = Len(request'.input)]_vars

C19_Witness ==
    /\ request.endpoint = MonitorRun
    /\ request.listed = "ok"
    /\ Len(log) = 2
    /\ log[1].tag = "renew_failed"
    /\ log[2].tag = "renewed"
    /\ \E i \in TaskIds : Looping(i) /\ tasks[i].wake = now + monitor.interval

\* the step is the arrival of a request at a monitor route: no time passes
\* and no suspended handler goes on
Arrives(endpoint) ==
    /\ request'.endpoint = endpoint
    /\ now' = now
    /\ Len(awaiting') >= Len(awaiting)

\* the step changed nothing of the monitor and answered with status
NoOp(status) ==
    /\ monitor' = monitor
    /\ tasks' = tasks
    /\ awaiting' = awaiting
    /\ response'.status = status

\* C20: a start request that arrives while a monitor loop is running leaves
\* the task, the running flag and the check interval as they were and
\* answers 'already_running'; a stop request that arrives while no monitor
\* loop is running changes nothing and answers 'not_running'.
C20_StartStopIdempotent ==
    [][/\ (Arrives(StartRoute) /\ \E i \in TaskIds : Looping(i))
          => NoOp("already_running")
       /\ (Arrives(StopRoute) /\ \A i \in TaskIds : tasks[i].pc \in {"none", "done"})
          => NoOp("not_running")]_vars

\* C21: once a stop request has returned ('stopped' or 'not_running') no
\* monitor task is alive, created or looping, so no tick follows until a
\* later start request, however the stop interleaves with start requests
\* and with the scheduling of the monitor task.
C21_NoLoopAfterStopReturned ==
    (request.endpoint = StopRoute /\ response.status \in {"stopped", "not_running"})
    => \A i \in TaskIds : tasks[i].pc \in {"none", "done"}

\* the acquisitions among the events of an operation
Acquisitions(events) ==
    {k \in 1..Len(events) : events[k] \in {"acquired", "acquire_failed"}}

\* C22: an operation whose token call finds a cached token with more than
\* five minutes left contacts the identity provider not at all, otherwise
\* exactly once; and an acquisition that fails ends the operation: it
\* fails, nothing is acquired again and no Graph request is sent.
C22_TokenCachedOrAcquiredOnce ==
    /\ request.endpoint \in {MakeRequestCall, DeleteRoute}
       => Cardinality(Acquisitions(log)) = (IF request.input.valid THEN 0 ELSE 1)
    /\ request.endpoint \in {MakeRequestCall, DeleteRoute, CreateRoute, RetryCall}
       => \A k \in 1..Len(log) :
              log[k] = "acquire_failed"
              => (k = Len(log) /\ response.status = "token")

\* the requests among the events of an operation: the creation attempts
Requests(events) == {k \in 1..Len(events) : events[k] = "request"}

\* the creation was given max_retries answers
MaxRetriesOf(r) == Len(r.input.answers)

\* the creation attempts of the call: the Graph requests, and one more when
\* the call ended in an attempt that failed to get its token
Attempts(events, status) ==
    Cardinality(Requests(events)) + (IF status = "token" THEN 1 ELSE 0)

\* C23: create_subscription_with_retry ends after at most max_retries
\* creation attempts; every attempt but the last failed with a validation
\* timeout; the call returns exactly when its last attempt succeeded, and
\* an attempt that failed otherwise is the last.
C23_RetryOnlyAfterValidationTimeout ==
    request.endpoint = RetryCall
    => /\ Attempts(log, response.status) <= MaxRetriesOf(request)
       /\ \A n \in 1..Attempts(log, response.status) :
              IF n < Attempts(log, response.status)
              THEN ErrorOf(request.input.answers[n]) = "timeout"
              ELSE \/ response.status = "token"
                   \/ /\ response.status = "returned"
                      /\ ErrorOf(request.input.answers[n]) = None
                   \/ /\ response.status = ErrorOf(request.input.answers[n])
                      /\ response.status = "timeout" => n = MaxRetriesOf(request)
       /\ response.status = "returned" => Requests(log) # {}
       /\ response.status = "exhausted" <=> MaxRetriesOf(request) = 0

C23_Witness ==
    /\ request.endpoint = RetryCall
    /\ MaxRetriesOf(request) = 3
    /\ Cardinality(Requests(log)) = 2
    /\ ErrorOf(request.input.answers[1]) = "timeout"
    /\ response.status = "graph"

\* C24: the deletion of a subscription succeeds (the route reports
\* 'success') whenever Graph answers the DELETE with a 2xx status, also a
\* 204 with an empty body, and fails only when Graph answers with another
\* status or the request cannot be sent.
C24_DeleteSucceedsOnAny2xx ==
    (request.endpoint = DeleteRoute /\ "request" \in Range(log))
    => (response.status = "returned"
        <=> request.input.answers[1].status \in 200..299)

\* the step removes key from _recent_messages
Untracked(key) ==
    DictHas(recent_messages, key) /\ ~DictHas(recent_messages', key)

\* C25: a tracked message is removed from _recent_messages only when the
\* approval marker of an allowed approver was found and the message's
\* ticket now exists, or when the entry is older than the retention of
\* five minutes; never for a marker of a user who is not allowed, never
\* when the creation of the ticket failed.
C25_UntrackedOnlyOnTicketOrRetention ==
    [][\A key \in Keys :
           Untracked(key)
           => \/ now' - DictValue(recent_messages, key) > MESSAGE_POLL_RETENTION
              \/ (Approved(key) /\ pages'[key[3]] > 0)]_vars

\* C26: no entry stays in _recent_messages for good: an entry older than
\* the retention of five minutes is dropped by a tick of the poller at
\* most one poll interval later, so no entry is ever older than retention
\* plus one interval.
C26_EntryDroppedAfterRetention ==
    \A i \in 1..Len(recent_messages) :
        now - recent_messages[i].value
        <= MESSAGE_POLL_RETENTION + REACTION_POLL_INTERVAL

\* an item the handler has nothing to do for: not a message resource, or a
\* change type other than created and updated
Ignorable(change) ==
    \/ ~IsMessageResource(change.resource)
    \/ change.changeType \notin {"created", "updated"}

\* C27: an item of a delivered batch whose change type is neither created nor
\* updated, or whose resource is not a message resource, makes no external
\* call (no fetch from Graph, no call of the ticket store); a batch of such
\* items leaves _recent_messages and the store as they were; the batch is
\* acknowledged with 202 and every item of it is gone through.
C27_IgnorableItemIsNoOp ==
    [][(HandlerStep /\ Delivered')
       => (/\ response'.status = 202
           /\ Len(log') = Len(request'.value)
           /\ \A i \in 1..Len(log') :
                  Ignorable(request'.value[i]) => log'[i].calls = <<>>
           /\ (\A i \in 1..Len(request'.value) : Ignorable(request'.value[i]))
              => (recent_messages' = recent_messages /\ pages' = pages))]_vars

\* a 'deleted' notification for a message was passed over and the item after
\* it was processed
C27_Witness ==
    /\ Delivered
    /\ response.status = 202
    /\ Len(log) = 2
    /\ request.value[1].changeType = "deleted"
    /\ IsMessageResource(request.value[1].resource)
    /\ log[1].calls = <<>>
    /\ log[2].tag = "tracked"

\* C28: after the notification handler has processed an item for a message
\* that carries the approval marker of an allowed approver, the message is
\* not in _recent_messages, both when the ticket was created by this item
\* and when the store reported that it exists already.
C28_ApprovedMessageUntracked ==
    [][(HandlerStep /\ Delivered' /\ Len(log') = Len(request'.value))
       => \A i \in 1..Len(log') :
              (/\ SubjectOf(request'.value[i]) \in Messages
               /\ Approved(KeyOf(SubjectOf(request'.value[i])))
               /\ log'[i].tag \in {"created", "duplicate"})
              => ~DictHas(recent_messages', KeyOf(SubjectOf(request'.value[i])))]_vars

\* the user whose approval marker is on the message
MarkerUser(key) == ReactingUser(reactions[key][FirstTicketReaction(reactions[key])])

\* C29: when get_user_info (for the approver or for the author) or
\* get_channel_info raised while an item was processed, by the notification
\* handler or by the poller, create_ticket was called all the same, and the
\* field the lookup was for holds the raw id: the reacting user's id, the
\* author's id, the channel id; an author without id is sent as "Unknown".
C29_LookupsAreBestEffort ==
    \A i \in 1..Len(log) :
        /\ (Range(log[i].calls) \cap {"get_user_info!", "get_channel_info!"} # {})
           => (/\ Range(log[i].calls) \cap {"query", "query!"} # {}
               /\ log[i].calls[2] = "get_user_info!"
                  => log[i].sent.approved_by_email = MarkerUser(KeyOf(log[i].m))
               /\ (Truthy(AuthorId(KeyOf(log[i].m))) /\ log[i].calls[3] = "get_user_info!")
                  => log[i].sent.requester_email = AuthorId(KeyOf(log[i].m))
               /\ "get_channel_info!" \in Range(log[i].calls)
                  => log[i].sent.teams_channel = KeyOf(log[i].m)[2])
        /\ (/\ Range(log[i].calls) \cap {"query", "query!"} # {}
            /\ log[i].m \in Messages
            /\ ~Truthy(AuthorId(KeyOf(log[i].m))))
           => log[i].sent.requester_email = "Unknown"

\* the poller created a ticket although the lookup of the author had raised
C29_Witness ==
    /\ request.endpoint = PollerRun
    /\ Len(log) = 1
    /\ log[1].tag = "created"
    /\ log[1].calls[3] = "get_user_info!"
    /\ log[1].sent.requester_email = "bob-id"
    /\ pages["M1"] = 1

\* the pass of the poller went wrong for one of its messages
PassFailed == \E i \in 1..Len(log) : log[i].tag \in {"fetch_failed", "create_failed"}

\* C30: a pass of the poller checks every message of its snapshot, in the
\* snapshot's order, also after a message whose fetch or whose ticket creation
\* failed; and the pass that follows a pass with such a failure goes through
\* its own snapshot in the same way: the loop has not ended.
C30_PollerPassGoesOn ==
    [][(request'.endpoint = PollerRun /\ now' # now)
       => (/\ Len(log') = Len(request'.value)
           /\ \A i \in 1..Len(log') : log'[i].m = request'.value[i].key[3]
           /\ request'.value = recent_messages)]_vars

\* the second pass, after a first one in which the fetch of M1 failed: the
\* fetch of the first message fails and the second message gets its ticket
C30_Witness ==
    /\ request.endpoint = PollerRun
    /\ now = 2 * REACTION_POLL_INTERVAL
    /\ Len(request.value) = 2
    /\ Len(log) = 2
    /\ log[1].tag = "fetch_failed"
    /\ log[2].tag = "created"
    /\ pages[log[2].m] = 1

\* C31: in a pass of the poller an entry older than MESSAGE_POLL_RETENTION
\* seconds is removed with no fetch of the message and no call of the ticket
\* store, whatever reactions the message has by then; an entry of that age or
\* younger is fetched.
C31_OldEntryDroppedUnfetched ==
    [][(request'.endpoint = PollerRun /\ now' # now /\ Len(log') = Len(request'.value))
       => \A i \in 1..Len(log') :
              IF now' - request'.value[i].value > MESSAGE_POLL_RETENTION
              THEN /\ log'[i].calls = <<>>
                   /\ ~DictHas(recent_messages', request'.value[i].key)
                   /\ pages'[request'.value[i].key[3]] = pages[request'.value[i].key[3]]
              ELSE /\ log'[i].calls # <<>>
                   /\ log'[i].calls[1] \in {"get_message", "get_message!"}]_vars

\* an entry was dropped for its age although the message carries the marker
\* of an allowed approver and has no ticket
C31_Witness ==
    /\ request.endpoint = PollerRun
    /\ Len(log) = 1
    /\ log[1].tag = "expired"
    /\ log[1].calls = <<>>
    /\ Approved(KeyOf(log[1].m))
    /\ pages[log[1].m] = 0
    /\ recent_messages = <<>>

\* the two paths run on entry i of _recent_messages as it is now, with the
\* same reactions and the same outcomes of the calls
PolledAs(i, env) ==
    PollMessage(recent_messages, pages, recent_messages[i], env, now, reactions)
ProcessedAs(i, env) ==
    process_message_reaction(recent_messages, pages,
                             Change("updated", None, SlashRes(recent_messages[i].key[3])),
                             env, now, reactions)
Creating == {"created", "duplicate", "create_failed"}

\* C32: for a tracked message that is fetched and carries the approval
\* marker, the poller and the notification handler, given the same reactions
\* and the same results of the lookups and of the store, both call
\* create_ticket or both do not, pass it the same fields, leave the same
\* tickets and leave _recent_messages in the same state.
C32_PathsAgree ==
    \A i \in 1..Len(recent_messages) : \A env \in Envs :
        (env.get /\ FirstTicketReaction(reactions[recent_messages[i].key]) # 0)
        => (/\ PolledAs(i, env).entry.tag \in Creating
               <=> ProcessedAs(i, env).entry.tag \in Creating
            /\ PolledAs(i, env).entry.sent = ProcessedAs(i, env).entry.sent
            /\ PolledAs(i, env).pages = ProcessedAs(i, env).pages
            /\ PolledAs(i, env).recent = ProcessedAs(i, env).recent)

\* the sleeps among the events of an operation, in order
SleepEvents == {SleepEvent(n) : n \in 0..100}
IsSleep(e) == e \in SleepEvents
Sleeps(events) == SelectSeq(events, IsSleep)

\* min(initial_delay * 2^(k-1), 10 s), in tenths of a second
BackoffTenths(d, k) == IF d * Pow(2, k - 1) < 100 THEN d * Pow(2, k - 1) ELSE 100

\* C33: a call of create_subscription_with_retry with initial_delay >= 1 s
\* sleeps once before each creation attempt but the first, the k-th time for
\* min(initial_delay * 2^(k-1), 10) seconds: never longer than 10 s and never
\* shorter than the time before.
C33_BackoffDoublesUpToTen ==
    (request.endpoint = RetryCall /\ request.input.extra >= 10)
    => (/\ log # <<>> => ~IsSleep(log[1])
        /\ Attempts(log, response.status) >= 1
           => Len(Sleeps(log)) = Attempts(log, response.status) - 1
        /\ \A k \in 1..Len(Sleeps(log)) :
               /\ Sleeps(log)[k] = SleepEvent(BackoffTenths(request.input.extra, k))
               /\ BackoffTenths(request.input.extra, k) <= 100
               /\ BackoffTenths(request.input.extra, k)
                      <= BackoffTenths(request.input.extra, k + 1))

\* initial_delay 6 s: the attempts waited 6 s and then 10 s, not 12 s
C33_Witness ==
    /\ request.endpoint = RetryCall
    /\ request.input.extra = 60
    /\ Sleeps(log) = <<SleepEvent(60), SleepEvent(100)>>
    /\ Cardinality(Requests(log)) = 3

\* a call of _get_access_token: it found the token valid, or it acquired
TokenEvents == {"cached", "acquired", "acquire_failed"}

\* C34: in create_subscription_with_retry every sleep before a retry is
\* followed by a call of _get_access_token, and every creation request comes
\* right after such a call, whatever initial_delay and the attempt are.
C34_TokenCheckedBeforeEveryRetry ==
    request.endpoint = RetryCall
    => \A k \in 1..Len(log) :
           /\ IsSleep(log[k]) => (k < Len(log) /\ log[k + 1] \in TokenEvents)
           /\ log[k] = "request" => (k > 1 /\ log[k - 1] \in {"cached", "acquired"})

\* a retry in rapid mode, where the retry loop itself does not call
\* _get_access_token: the creation request checked the token
C34_Witness ==
    /\ request.endpoint = RetryCall
    /\ request.input.extra = 5
    /\ Len(log) = 5
    /\ log[3] = SleepEvent(5)
    /\ log[4] = "cached"
    /\ log[5] = "request"

\* the cached pair is unset, or token and expiry are of one acquisition
PairOfOneAcquisition(tok) ==
    \/ tok = NoToken
    \/ /\ tok.has_expiry
       /\ \E idp \in IdpAnswers :
              /\ idp.ok
              /\ tok.access_token = TokenOf(tok.token_expires_at - idp.expires_in,
                                            idp.expires_in)

\* C35: in every state _access_token and _token_expires_at are both unset
\* or both set by one successful acquisition, whichever operations of the
\* client ran and in whichever order; an operation none of whose
\* acquisitions succeeded leaves the cached pair as it was.
C35_TokenPairConsistent ==
    [][/\ PairOfOneAcquisition(token_cache')
       /\ (\A k \in 1..Len(log') : log'[k] # "acquired") => token_cache' = token_cache]_vars

\* a pair was cached, and a later operation whose acquisition failed, the
\* cached token being stale by then, left it in the cache
C35_Witness ==
    /\ request.endpoint = MakeRequestCall
    /\ response.status = "token"
    /\ log = <<"acquire_failed">>
    /\ token_cache # NoToken
    /\ ~TokenValid(token_cache, now)

\* the monitor tasks whose loop has begun, has not ended, and has no
\* cancellation pending
LoopsAlive == {i \in TaskIds : tasks[i].pc \in {"sleeping", "backoff"} /\ ~tasks[i].cancel}

\* C36: at most one task runs the loop of monitor_subscriptions at any
\* time, whatever the order of the start and stop requests and of the steps
\* of the tasks.
C36_AtMostOneMonitorLoop == Cardinality(LoopsAlive) <= 1

\* C37: a task that runs the loop of monitor_subscriptions is the task
\* _renewal_task refers to, so that the status route sees it and a stop
\* request can cancel it.
C37_LiveLoopIsReferenced == \A i \in LoopsAlive : monitor.task = i

\* some approval-marker reaction of the list is by an allowed approver
SomeMarkerAllowed(rs) ==
    \E j \in 1..Len(rs) :
        rs[j].reactionType = TICKET_EMOJI /\ is_user_allowed(ReactingUser(rs[j]))

\* C38: when the message is fetched and at least one of its approval-marker
\* reactions is by an allowed approver, the notification handler and the
\* poller call create_ticket, wherever that reaction stands among the
\* reactions and whoever made the other approval-marker reactions.
C38_AnyAllowedMarkerApproves ==
    \A i \in 1..Len(recent_messages) : \A env \in Envs :
        (env.get /\ SomeMarkerAllowed(reactions[recent_messages[i].key]))
        => (/\ ProcessedAs(i, env).entry.tag \in Creating
            /\ "get_message" \in Range(PolledAs(i, env).entry.calls)
               => PolledAs(i, env).entry.tag \in Creating)

\* C39: for every subscription a tick of the monitor renews, the monitor's
\* test for a Teams-message resource agrees with the normalizer's, which
\* puts a '/' in front of a resource that has none before it tests; and a
\* subscription the normalizer takes for a Teams-message one is renewed for
\* at most one hour.
C39_MonitorClassifiesAsNormalizer ==
    (request.endpoint = MonitorRun /\ request.listed = "ok" /\ Len(log) = Len(request.input))
    => \A i \in 1..Len(log) :
           Attempted(i)
           => /\ is_teams_messages(request.input[i].resource)
                 <=> is_teams_messages(WithLeadingSlash(request.input[i].resource))
              /\ is_teams_messages(WithLeadingSlash(request.input[i].resource))
                 => log[i].sent.wall <= monitor.last_check + TEAMS_MAX_EXPIRATION


\* C40: POST /subscription/create for a Teams-message resource, given with
\* or without its leading '/', with any change_types and any
\* expiration_days, has for Graph a payload with changeType 'created', a
\* lifecycleNotificationUrl and an expiration between 30 minutes and one hour
\* after the time of the request, and does not end as the configuration
\* error (400) that the normalizer's missing lifecycle URL gives.
C40_TeamsCreatePayload ==
    (request.endpoint = CreateRoute /\ request.input.resource \in TeamsResources)
    => (/\ response.status # 400
        /\ Len(log) = 1
        /\ log[1].payload.resource = TeamsSub
        /\ log[1].payload.changeType = <<"created">>
        /\ "lifecycleNotificationUrl" \in DOMAIN log[1].payload
        /\ Truthy(log[1].payload.lifecycleNotificationUrl)
        /\ PayloadInstant(log[1].payload) >= now + 1800
        /\ PayloadInstant(log[1].payload) <= now + TEAMS_MAX_EXPIRATION)

\* the resource without its leading '/', change types without 'created' in
\* front and expiration_days of 0: created for 30 minutes and 30 seconds
C40_Witness ==
    /\ request.endpoint = CreateRoute
    /\ request.input.resource = BareTeamsSub
    /\ request.input.change_types = <<"updated", "created">>
    /\ request.input.lifetime = 0
    /\ response.status = 200
    /\ log[1].tag = "created"
    /\ log[1].payload.changeType = <<"created">>
    /\ PayloadInstant(log[1].payload) = now + min_expiration

====
